---- MODULE Spec2Model ----
(***************************************************************************)
(* Model of the asynchronous transformation pipeline of the image          *)
(* processing service: the Celery task apply_transformations               *)
(* (image_processor/tasks.py), the result cache helpers (utils/utils.py)   *)
(* and the persistence rules of api/models.py that the task relies on.     *)
(***************************************************************************)
EXTENDS Integers, Sequences, FiniteSets, TLC

VARIABLES tasks, timgs, cache, wk, deliveries, simgs, http

vars == <<tasks, timgs, cache, wk, deliveries, simgs, http>>

----------------------------------------------------------------------------
(* Bounds of the model *)

NumTasks == 1
NumWorkers == 2
MaxDeliveries == 2
MaxImages == 2

TaskIds == 1..NumTasks
Workers == 1..NumWorkers

\* A primary key that resolves to no TransformationTask row.
MissingTaskId == NumTasks + 1

\* NULL of a nullable foreign key / of the cached id (primary keys start at 1).
NullId == 0

\* NULL of TransformationTask.format and of a metadata "format" entry.
NoFormat == "<null>"

----------------------------------------------------------------------------
(* TaskStatus *)

PENDING == "PENDING"
IN_PROGRESS == "IN_PROGRESS"
SUCCESS == "SUCCESS"
FAILED == "FAILED"
CANCELLED == "CANCELLED"

TaskStatus == {PENDING, IN_PROGRESS, SUCCESS, FAILED, CANCELLED}

TerminalStatus == {SUCCESS, FAILED, CANCELLED}

----------------------------------------------------------------------------
(* Exceptions: a kind (the class) and the message str(e) produces *)

Msg(text, op, task, cause) ==
    [text |-> text, op |-> op, task |-> task, cause |-> cause]

\* NULL of TransformationTask.error_message
NullMsg == Msg("<null>", "", 0, "")

Exc(kind, msg) == [kind |-> kind, msg |-> msg]

NoExc == Exc("None", NullMsg)

\* variant: the ORM's DoesNotExist escapes instead of TaskNotFound
TaskNotFound_DoesNotExist(task_id) ==
    Exc("DoesNotExist",
        Msg("TransformationTask matching query does not exist.", "", task_id, ""))

TaskNotFound(task_id) ==
    Exc("TaskNotFound", Msg("Task with id {task_id} not found.", "", task_id, ""))

\* raised without arguments: str(e) is the class's default_detail
NoTransformationsDefined ==
    Exc("NoTransformationsDefined",
        Msg("No transformations were defined for this task.", "", 0, ""))

OriginalImageNotFound(text, task_id) ==
    Exc("OriginalImageNotFound", Msg(text, "", task_id, ""))

InvalidTransformation(op, task_id) ==
    Exc("InvalidTransformation",
        Msg("Invalid operation: {operation} for task: {task.id}.", op, task_id, ""))

TransformationFailed(op, task_id, cause) ==
    Exc("TransformationFailed",
        Msg("Error applying transformation {operation} for task: {task.id}: {e}",
            op, task_id, cause))

StorageUploadFailed ==
    Exc("StorageUploadFailed",
        Msg("Failed to upload {file.name} to S3. Please try again later.", "", 0, ""))

\* the cache backend failing inside cache.get
CacheError == Exc("CacheError", Msg("cache backend error", "", 0, ""))

\* the source file cannot be opened or decoded by Image.open
ImageOpenError == Exc("ImageOpenError", Msg("cannot open image file", "", 0, ""))

\* the encoder rejecting the image (unknown format, unsupported mode)
EncodeError == Exc("EncodeError", Msg("cannot write image", "", 0, ""))

MetadataExtractionError ==
    Exc("MetadataExtractionError", Msg("Missing image metadata", "", 0, ""))

\* the database rejecting a row whose result_image_id references no row
IntegrityError ==
    Exc("IntegrityError", Msg("violates foreign key constraint", "", 0, ""))

----------------------------------------------------------------------------
(* Source images (read-only to the pipeline) *)

SourceImages ==
    1 :> [owner |-> "alice", file_name |-> "photo", description |-> "a photo",
          metadata |-> [present |-> TRUE, format |-> "JPEG"],
          mode |-> "RGB", width |-> 4, height |-> 4]
    @@
    2 :> [owner |-> "bob", file_name |-> "scan", description |-> "a scan",
          metadata |-> [present |-> FALSE, format |-> NoFormat],
          mode |-> "RGBA", width |-> 4, height |-> 2]
    @@
    3 :> [owner |-> "bob", file_name |-> "icon", description |-> "an icon",
          metadata |-> [present |-> TRUE, format |-> NoFormat],
          mode |-> "RGBA", width |-> 2, height |-> 2]

SourceIds == DOMAIN SourceImages

Bitmap(w, h, mode) == [width |-> w, height |-> h, mode |-> mode]

NoBitmap == Bitmap(0, 0, "<none>")

----------------------------------------------------------------------------
(* The last request served by the API (api/views.py) and its response *)

\* request.data["transformations"] as the JSON value it is: a list with its
\* items, or a value of another JSON type
JsonList(items) == [json_type |-> "list", items |-> items]

\* a JSON object where the list is expected
JsonObject == [json_type |-> "object", items |-> <<>>]

Request(user, endpoint, pk, transformations, format) ==
    [user |-> user, endpoint |-> endpoint, pk |-> pk,
     transformations |-> transformations, format |-> format]

Response(request, status, ids, created, enqueued) ==
    [request |-> request, status |-> status, ids |-> ids,
     created |-> created, enqueued |-> enqueued]

\* no request was served yet
NoRequest ==
    Response(Request("", "", NullId, JsonList(<<>>), NoFormat), 0, {}, NullId, <<>>)

----------------------------------------------------------------------------
(* Transform library: each function returns a bitmap or raises *)

Ok(image) == [ok |-> TRUE, image |-> image, err |-> ""]

Raise(text) == [ok |-> FALSE, image |-> NoBitmap, err |-> text]

\* params is the JSON object of a step, a sequence of <<name, value>> pairs
\* in insertion order
ParamNames(params) == {params[i][1] : i \in 1..Len(params)}

Param(params, name) ==
    LET i == CHOOSE j \in 1..Len(params) : params[j][1] = name
    IN  params[i][2]

\* transform_func(processed_image, **params): the keywords must be exactly
\* the function's parameters, else Python raises TypeError
KwargsMatch(params, names) ==
    /\ ParamNames(params) = names
    /\ Len(params) = Cardinality(names)

crop(image, x, y, width, height) ==
    IF x + width > image.width \/ y + height > image.height
    THEN Raise("Invalid dimensions for cropping.")
    ELSE IF width < 0 \/ height < 0
    THEN Raise("Coordinate 'right' is less than 'left'")
    ELSE Ok(Bitmap(width, height, image.mode))

resize(image, width, height) ==
    IF width <= 0 \/ height <= 0
    THEN Raise("height and width must be > 0")
    ELSE Ok(Bitmap(width, height, image.mode))

\* Image.rotate(angle) keeps the size of the input (expand defaults to False)
rotate(image, degrees) == Ok(Bitmap(image.width, image.height, image.mode))

\* Image.alpha_composite needs both images in mode RGBA
watermark(image, watermark_text) ==
    IF watermark_text = ""
    THEN Raise("Watermark text cannot be empty.")
    ELSE IF image.mode # "RGBA"
    THEN Raise("images do not match")
    ELSE Ok(Bitmap(image.width, image.height, "RGBA"))

flip(image) == Ok(image)

mirror(image) == Ok(image)

grayscale(image) == Ok(Bitmap(image.width, image.height, "L"))

sepia(image) == Ok(Bitmap(image.width, image.height, "RGB"))

blur(image) == Ok(image)

AVAILABLE_FILTERS == {"BLUR", "GRAYSCALE", "SEPIA"}

\* str.upper on the filter names and formats that occur in the model
Upper(s) ==
    CASE s = "blur" -> "BLUR"
      [] s = "grayscale" -> "GRAYSCALE"
      [] s = "sepia" -> "SEPIA"
      [] s = "jpeg" -> "JPEG"
      [] s = "png" -> "PNG"
      [] s = "gif" -> "GIF"
      [] OTHER -> s

\* str.lower on the formats and operations that occur in the model
Lower(s) ==
    CASE s = "JPEG" -> "jpeg"
      [] s = "PNG" -> "png"
      [] s = "None" -> "none"
      [] s = "FLIP" -> "flip"
      [] s = "Resize" -> "resize"
      [] OTHER -> s

RECURSIVE ApplyFilters(_, _, _)
\* apply_filter(image, **kwargs): the named filters in mapping iteration order
ApplyFilters(image, kwargs, i) ==
    IF i > Len(kwargs) THEN Ok(image)
    ELSE LET filter_name == kwargs[i][1]
             up == Upper(filter_name)
         IN  IF up \notin AVAILABLE_FILTERS
             THEN Raise("Invalid filter name: {filter_name}")
             ELSE LET filtered ==
                          CASE up = "BLUR" -> blur(image)
                            [] up = "GRAYSCALE" -> grayscale(image)
                            [] up = "SEPIA" -> sepia(image)
                  IN  ApplyFilters(filtered.image, kwargs, i + 1)

apply_filter(image, kwargs) == ApplyFilters(image, kwargs, 1)

TRANSFORMATION_MAP ==
    {"crop", "resize", "rotate", "watermark", "flip", "mirror", "apply_filter"}

TypeErrorText == "got an unexpected keyword argument"

\* TRANSFORMATION_MAP[operation](image, **params)
CallTransform(operation, image, params) ==
    CASE operation = "crop" ->
            IF KwargsMatch(params, {"x", "y", "width", "height"})
            THEN crop(image, Param(params, "x"), Param(params, "y"),
                      Param(params, "width"), Param(params, "height"))
            ELSE Raise(TypeErrorText)
      [] operation = "resize" ->
            IF KwargsMatch(params, {"width", "height"})
            THEN resize(image, Param(params, "width"), Param(params, "height"))
            ELSE Raise(TypeErrorText)
      [] operation = "rotate" ->
            IF KwargsMatch(params, {"degrees"})
            THEN rotate(image, Param(params, "degrees"))
            ELSE Raise(TypeErrorText)
      [] operation = "watermark" ->
            IF KwargsMatch(params, {"watermark_text"})
            THEN watermark(image, Param(params, "watermark_text"))
            ELSE Raise(TypeErrorText)
      [] operation = "flip" ->
            IF KwargsMatch(params, {}) THEN flip(image) ELSE Raise(TypeErrorText)
      [] operation = "mirror" ->
            IF KwargsMatch(params, {}) THEN mirror(image) ELSE Raise(TypeErrorText)
      [] operation = "apply_filter" -> apply_filter(image, params)

----------------------------------------------------------------------------
(* Cache key generator and result cache (utils/utils.py) *)

\* the parameter names of the model in the order json.dumps(sort_keys=True)
\* emits them (code-point order)
SortedNames ==
    <<"blur", "degrees", "grayscale", "height", "sepia", "shout",
      "watermark_text", "width", "x", "y">>

NameRank(name) == CHOOSE i \in 1..Len(SortedNames) : SortedNames[i] = name

RECURSIVE InsertSorted(_, _)
InsertSorted(pair, sorted) ==
    IF sorted = <<>> THEN <<pair>>
    ELSE IF NameRank(pair[1]) <= NameRank(Head(sorted)[1])
    THEN <<pair>> \o sorted
    ELSE <<Head(sorted)>> \o InsertSorted(pair, Tail(sorted))

RECURSIVE SortKeys(_)
\* the members of one JSON object ordered by key
SortKeys(params) ==
    IF params = <<>> THEN <<>>
    ELSE InsertSorted(Head(params), SortKeys(Tail(params)))

\* variant: json.dumps without sort_keys keeps the insertion order
JsonDumps_Unsorted(transformations) ==
    [i \in DOMAIN transformations |->
        [operation |-> transformations[i].operation,
         params |-> transformations[i].params]]

\* json.dumps(transformations, sort_keys=True): list order kept, the keys of
\* every object sorted
JsonDumpsSorted(transformations) ==
    [i \in DOMAIN transformations |->
        [operation |-> transformations[i].operation,
         params |-> SortKeys(transformations[i].params)]]

\* image_format.lower() if image_format else "None"
FormatStr(image_format) ==
    IF image_format # NoFormat /\ image_format # ""
    THEN Lower(image_format)
    ELSE "None"

\* variant: the source image id takes no part in the key data
cache_key_NoSource(source_image_id, transformations, image_format) ==
    <<NullId, JsonDumpsSorted(transformations), FormatStr(image_format)>>

\* variant: the transformations take no part in the key data
cache_key_NoSteps(source_image_id, transformations, image_format) ==
    <<source_image_id, <<>>, FormatStr(image_format)>>

\* the digest of the key data, one value per distinct key data
generate_transformation_cache_key(source_image_id, transformations, image_format) ==
    <<source_image_id, JsonDumpsSorted(transformations), FormatStr(image_format)>>

\* cache.get(cache_key): the stored id, None when absent
CacheGet(store, cache_key) ==
    IF \E e \in store : e[1] = cache_key
    THEN (CHOOSE e \in store : e[1] = cache_key)[2]
    ELSE NullId

\* variant: the write is dropped
CacheSet_Discard(store, cache_key, transformed_image_id) == store

\* cache.set(cache_key, transformed_image_id)
CacheSet(store, cache_key, transformed_image_id) ==
    {e \in store : e[1] # cache_key} \cup {<<cache_key, transformed_image_id>>}

----------------------------------------------------------------------------
(* Persistence (api/models.py) *)

\* variant: the foreign key is declared without a database constraint
FKValid_Unconstrained(result_image) == TRUE

\* result_image is a database foreign key: a row whose result_image_id
\* references no TransformedImage row is rejected by the database
FKValid(result_image) ==
    \/ result_image = NullId
    \/ /\ result_image \in 1..Len(timgs)
       /\ timgs[result_image].live

\* Model.save() of an existing row writes every field of the in-memory object
SavedTasks(task_id, mem) ==
    [tasks EXCEPT ![task_id] =
        [@ EXCEPT !.status = mem.status,
                  !.result_image = mem.result_image,
                  !.error_message = mem.error_message]]

\* the in-memory TransformationTask object a worker holds
MemTask(row) ==
    [status |-> row.status, result_image |-> row.result_image,
     error_message |-> row.error_message]

\* variant: the rejection of an empty list records no message
EmptyListMem_NoMessage(mem) == [mem EXCEPT !.status = FAILED]

\* the assignments apply_transformations makes to its task object
EmptyListMem(mem) ==
    [mem EXCEPT !.status = FAILED,
                !.error_message =
                    Msg("No transformations were defined for task.", "", 0, "")]

\* variant: the status is left as fetched before the first save
InProgressMem_Unset(mem) == mem

\* variant: the pickup persists PENDING again
InProgressMem_Pending(mem) == [mem EXCEPT !.status = PENDING]

InProgressMem(mem) == [mem EXCEPT !.status = IN_PROGRESS]

CacheHitMem(mem, cached_image_id) ==
    [mem EXCEPT !.result_image = cached_image_id, !.status = SUCCESS]

LinkedMem(mem, result_id) == [mem EXCEPT !.result_image = result_id]

SuccessMem(mem) == [mem EXCEPT !.status = SUCCESS]

\* variant: the except clause records the message but not the status
FailedMem_NoStatus(mem, e) == [mem EXCEPT !.error_message = e.msg]

FailedMem(mem, e) == [mem EXCEPT !.status = FAILED, !.error_message = e.msg]

NoMemTask == [status |-> "<none>", result_image |-> NullId, error_message |-> NullMsg]

----------------------------------------------------------------------------
(* Observable calls of one execution, in order *)

Ev(ev, status, id, msg, op) ==
    [ev |-> ev, status |-> status, id |-> id, msg |-> msg, op |-> op]

SaveEv(mem) == Ev("save", mem.status, mem.result_image, mem.error_message, "")

----------------------------------------------------------------------------
(* Worker state *)

InitWorker ==
    [pc |-> "idle",
     task_id |-> NullId,
     task_bound |-> FALSE,          \* the outer variable task is not None
     task |-> NoMemTask,
     fetched |-> NoMemTask,         \* the row as objects.get returned it
     cached_image_id |-> NullId,
     image |-> NoBitmap,
     image_format |-> NoFormat,
     result_id |-> NullId,
     steps_io |-> <<>>,             \* the transform calls that returned
     exc |-> NoExc,                 \* the exception caught by the except clause
     raised |-> NoExc,              \* the exception that leaves the call
     outcome |-> "none",            \* "returned" or "raised" once done
     log |-> <<>>]

Running(w) == wk[w].pc \notin {"idle", "done"}

\* set fields of worker w
Upd(w, rec) == [wk EXCEPT ![w] = rec]

\* an exception travels to the except clause of apply_transformations
Throw(w, rec, e) == Upd(w, [rec EXCEPT !.pc = "except", !.exc = e])

----------------------------------------------------------------------------
(* Inputs *)

Flip == [operation |-> "flip", params |-> <<>>]

Exec == [operation |-> "exec", params |-> <<>>]

CropBad ==
    [operation |-> "crop",
     params |-> << <<"x", 3>>, <<"y", 3>>, <<"width", 2>>, <<"height", 2>> >>]

Watermark ==
    [operation |-> "watermark", params |-> << <<"watermark_text", "wm">> >>]

TaskProfiles ==
    << [owner |-> "alice", original_image |-> 1,
        transformations |-> <<Flip>>, format |-> "JPEG"],
       [owner |-> "alice", original_image |-> 1,
        transformations |-> <<>>, format |-> "JPEG"],
       [owner |-> "alice", original_image |-> 1,
        transformations |-> <<Flip, Exec>>, format |-> NoFormat],
       [owner |-> "bob", original_image |-> 2,
        transformations |-> <<Flip>>, format |-> NoFormat],
       [owner |-> "alice", original_image |-> 1,
        transformations |-> <<Flip, CropBad, Flip>>, format |-> "PNG"],
       [owner |-> "bob", original_image |-> 3,
        transformations |-> <<Watermark>>, format |-> "JPEG"] >>

\* the assignments of profiles to task ids, up to renumbering of the tasks
ProfileChoices ==
    {f \in [TaskIds -> DOMAIN TaskProfiles] :
        \A t, u \in TaskIds : t < u => f[t] <= f[u]}

\* a TransformationTask row as create_transformed_image persists it
NewTask(profile) ==
    [owner |-> profile.owner,
     original_image |-> profile.original_image,
     transformations |-> profile.transformations,
     format |-> profile.format,
     status |-> PENDING,
     result_image |-> NullId,
     error_message |-> NullMsg]

Init ==
    /\ tasks \in {[t \in TaskIds |-> NewTask(TaskProfiles[f[t]])] : f \in ProfileChoices}
    /\ timgs = <<>>
    /\ cache = {}
    /\ wk = [w \in Workers |-> InitWorker]
    /\ deliveries = 0
    /\ simgs = SourceImages
    /\ http = NoRequest

----------------------------------------------------------------------------
(* Pipeline steps (image_processor/tasks.py) *)

\* variant: the format recorded in the source's metadata is preferred to the
\* format of the task
LoadImage_MetadataFirst(task_id, row, readable) ==
    LET src == simgs[row.original_image]
        fail(e) == [ok |-> FALSE, image |-> NoBitmap, image_format |-> NoFormat,
                    exc |-> e]
    IN  IF row.original_image \notin DOMAIN simgs
        THEN fail(OriginalImageNotFound(
                    "The original image for this task was not found.", 0))
        ELSE IF ~readable
        THEN fail(ImageOpenError)
        ELSE IF src.metadata.present /\ src.metadata.format \notin {NoFormat, ""}
        THEN [ok |-> TRUE, image |-> Bitmap(src.width, src.height, src.mode),
              image_format |-> src.metadata.format, exc |-> NoExc]
        ELSE IF row.format # NoFormat
        THEN [ok |-> TRUE, image |-> Bitmap(src.width, src.height, src.mode),
              image_format |-> row.format, exc |-> NoExc]
        ELSE fail(OriginalImageNotFound(
                    "Format not found in metadata for task: {task_id}.", 0))

\* _load_image_and_determine_format; readable says whether Image.open succeeds
LoadImageAndDetermineFormat(task_id, row, readable) ==
    LET src == simgs[row.original_image]
        fail(e) == [ok |-> FALSE, image |-> NoBitmap, image_format |-> NoFormat,
                    exc |-> e]
    IN  IF row.original_image \notin DOMAIN simgs
        THEN fail(OriginalImageNotFound(
                    "The original image for this task was not found.", 0))
        ELSE IF ~readable
        THEN fail(ImageOpenError)
        ELSE IF row.format # NoFormat
        THEN [ok |-> TRUE, image |-> Bitmap(src.width, src.height, src.mode),
              image_format |-> row.format, exc |-> NoExc]
        ELSE IF ~src.metadata.present
        THEN fail(OriginalImageNotFound(
                    "Metadata not found for task: {task.id}. Format not found.",
                    task_id))
        ELSE IF src.metadata.format = NoFormat \/ src.metadata.format = ""
        THEN fail(OriginalImageNotFound(
                    "Format not found in metadata for task: {task_id}.", 0))
        ELSE [ok |-> TRUE, image |-> Bitmap(src.width, src.height, src.mode),
              image_format |-> src.metadata.format, exc |-> NoExc]

RECURSIVE ProcessingLoop(_, _, _, _, _, _)
\* the for loop of _apply_processing_steps from step i on; calls is the list
\* of transform calls made so far, io the image given to and returned by
\* each call that returned
ProcessingLoop(image, transformations, i, task_id, calls, io) ==
    IF i > Len(transformations)
    THEN [ok |-> TRUE, image |-> image, exc |-> NoExc, calls |-> calls, io |-> io]
    ELSE LET operation == transformations[i].operation
             params == transformations[i].params
         IN  IF operation \notin TRANSFORMATION_MAP
             THEN [ok |-> FALSE, image |-> image,
                   exc |-> InvalidTransformation(operation, task_id),
                   calls |-> calls, io |-> io]
             ELSE LET r == CallTransform(operation, image, params)
                      called == Append(calls,
                                    Ev("step", IF r.ok THEN "ok" ELSE "raised",
                                       i, NullMsg, operation))
                  IN  IF ~r.ok
                      THEN [ok |-> FALSE, image |-> image,
                            exc |-> TransformationFailed(operation, task_id, r.err),
                            calls |-> called, io |-> io]
                      ELSE ProcessingLoop(r.image, transformations, i + 1,
                                          task_id, called,
                                          Append(io, [operation |-> operation,
                                                      input |-> image,
                                                      output |-> r.image]))

RECURSIVE Reversed(_)
Reversed(seq) ==
    IF seq = <<>> THEN <<>> ELSE Append(Reversed(Tail(seq)), Head(seq))

\* variant: the chain is run from the last step to the first
ApplyProcessingSteps_Reversed(processed_image, task_id, transformations) ==
    ProcessingLoop(processed_image, Reversed(transformations), 1, task_id,
                   <<>>, <<>>)

\* _apply_processing_steps: the chain, then RGBA is converted to RGB
ApplyProcessingSteps(processed_image, task_id, transformations) ==
    IF transformations = <<>>
    THEN [ok |-> FALSE, image |-> processed_image, calls |-> <<>>, io |-> <<>>,
          exc |-> Exc("NoTransformationsDefined",
                      Msg("No transformations were applied for task: {task.id}.",
                          "", task_id, ""))]
    ELSE LET r == ProcessingLoop(processed_image, transformations, 1, task_id,
                                 <<>>, <<>>)
         IN  IF r.ok /\ r.image.mode = "RGBA"
             THEN [r EXCEPT !.image = Bitmap(r.image.width, r.image.height, "RGB")]
             ELSE r

\* processed_image.save(image_buffer, format=image_format) succeeds
EncodeOk(image, image_format) ==
    /\ Upper(image_format) \in {"JPEG", "PNG"}
    /\ ~(Upper(image_format) = "JPEG" /\ image.mode = "RGBA")
    /\ image.width > 0 /\ image.height > 0

\* variant: the file name carries the format as given, not in lower case
NewTransformedImage_RawFormat(image, task_id, row, image_format) ==
    LET src == simgs[row.original_image]
    IN  [owner |-> row.owner,
         file_name |-> <<src.file_name, task_id, image_format>>,
         description |-> src.description,
         source_image |-> row.original_image,
         transformation_task |-> task_id,
         metadata |-> [format |-> image_format, mode |-> image.mode,
                       width |-> image.width, height |-> image.height],
         live |-> TRUE]

\* the TransformedImage row _save_result_image creates
NewTransformedImage(image, task_id, row, image_format) ==
    LET src == simgs[row.original_image]
    IN  [owner |-> row.owner,
         file_name |-> <<src.file_name, task_id, Lower(image_format)>>,
         description |-> src.description,
         source_image |-> row.original_image,
         transformation_task |-> task_id,
         metadata |-> [format |-> image_format, mode |-> image.mode,
                       width |-> image.width, height |-> image.height],
         live |-> TRUE]

----------------------------------------------------------------------------
(* Actions *)

\* the queue hands a task id to the first idle worker; a task is executed by
\* one worker at a time
Deliver(w, task_id) ==
    /\ ~Running(w)
    /\ \A v \in Workers : v < w => Running(v)
    /\ deliveries < MaxDeliveries
    /\ \A v \in Workers \ {w} : ~(Running(v) /\ wk[v].task_id = task_id)
    /\ wk' = Upd(w, [InitWorker EXCEPT !.pc = "get_task", !.task_id = task_id])
    /\ deliveries' = deliveries + 1
    /\ UNCHANGED <<tasks, timgs, cache, simgs, http>>

\* _get_task_and_set_in_progress, the fetch
GetTask(w) ==
    LET me == wk[w]
    IN  /\ me.pc = "get_task"
        /\ IF me.task_id \notin DOMAIN tasks
           THEN wk' = Throw(w, [me EXCEPT !.log =
                                   Append(@, Ev("get", "MISSING", me.task_id,
                                                NullMsg, ""))],
                            TaskNotFound(me.task_id))
           ELSE wk' = Upd(w, [me EXCEPT
                    !.pc = "set_status",
                    !.task = MemTask(tasks[me.task_id]),
                    !.fetched = MemTask(tasks[me.task_id]),
                    !.log = Append(@, Ev("get", tasks[me.task_id].status,
                                         me.task_id, NullMsg, ""))])
        /\ UNCHANGED <<tasks, timgs, cache, deliveries, simgs, http>>

\* _get_task_and_set_in_progress, the check of the list and the first save
SetInProgress(w) ==
    LET me == wk[w]
        row == tasks[me.task_id]
        mem == IF row.transformations = <<>>
               THEN EmptyListMem(me.task)
               ELSE InProgressMem(me.task)
    IN  /\ me.pc = "set_status"
        /\ IF ~FKValid(mem.result_image)
           THEN /\ wk' = Throw(w, [me EXCEPT !.task = mem,
                                      !.log = Append(@, Ev("save_rejected",
                                          mem.status, mem.result_image,
                                          mem.error_message, ""))],
                               IntegrityError)
                /\ UNCHANGED tasks
           ELSE /\ tasks' = SavedTasks(me.task_id, mem)
                /\ IF row.transformations = <<>>
                   THEN wk' = Throw(w, [me EXCEPT !.task = mem,
                                           !.log = Append(@, SaveEv(mem))],
                                    NoTransformationsDefined)
                   ELSE wk' = Upd(w, [me EXCEPT !.pc = "cache_get",
                                         !.task = mem,
                                         !.task_bound = TRUE,
                                         !.log = Append(@, SaveEv(mem))])
        /\ UNCHANGED <<timgs, cache, deliveries, simgs, http>>

\* variant: the key is computed from the source and the format only
TaskKey_NoSteps(task_id) ==
    generate_transformation_cache_key(tasks[task_id].original_image, <<>>,
                                      tasks[task_id].format)

TaskKey(task_id) ==
    generate_transformation_cache_key(tasks[task_id].original_image,
                                      tasks[task_id].transformations,
                                      tasks[task_id].format)

\* get_transformed_image_id_from_cache; backend_up says whether cache.get
\* answers or raises
CacheLookup(w) ==
    LET me == wk[w]
        found == CacheGet(cache, TaskKey(me.task_id))
    IN  /\ me.pc = "cache_get"
        /\ \E backend_up \in BOOLEAN :
              IF ~backend_up
              THEN wk' = Throw(w, [me EXCEPT !.log =
                                      Append(@, Ev("cache_get", "ERROR", NullId,
                                                   NullMsg, ""))],
                               CacheError)
              ELSE wk' = Upd(w, [me EXCEPT
                        !.pc = IF found # NullId THEN "cache_hit" ELSE "load",
                        !.cached_image_id = found,
                        !.log = Append(@, Ev("cache_get",
                                             IF found # NullId THEN "HIT" ELSE "MISS",
                                             found, NullMsg, ""))])
        /\ UNCHANGED <<tasks, timgs, cache, deliveries, simgs, http>>

\* the cache-hit branch of apply_transformations
CacheHit(w) ==
    LET me == wk[w]
        mem == CacheHitMem(me.task, me.cached_image_id)
    IN  /\ me.pc = "cache_hit"
        /\ IF ~FKValid(mem.result_image)
           THEN /\ wk' = Throw(w, [me EXCEPT !.task = mem,
                                      !.log = Append(@, Ev("save_rejected",
                                          mem.status, mem.result_image,
                                          mem.error_message, ""))],
                               IntegrityError)
                /\ UNCHANGED tasks
           ELSE /\ tasks' = SavedTasks(me.task_id, mem)
                /\ wk' = Upd(w, [me EXCEPT !.pc = "done", !.task = mem,
                                    !.outcome = "returned",
                                    !.log = Append(@, SaveEv(mem))])
        /\ UNCHANGED <<timgs, cache, deliveries, simgs, http>>

\* Step 2 of apply_transformations
LoadImage(w) ==
    LET me == wk[w]
    IN  /\ me.pc = "load"
        /\ \E readable \in BOOLEAN :
              LET r == LoadImageAndDetermineFormat(me.task_id, tasks[me.task_id],
                                                   readable)
                  opened == [me EXCEPT !.log =
                                Append(@, Ev("open", IF readable THEN "ok" ELSE "raised",
                                             tasks[me.task_id].original_image,
                                             NullMsg, ""))]
              IN  IF ~r.ok
                  THEN wk' = Throw(w, opened, r.exc)
                  ELSE wk' = Upd(w, [opened EXCEPT !.pc = "steps",
                                        !.image = r.image,
                                        !.image_format = r.image_format])
        /\ UNCHANGED <<tasks, timgs, cache, deliveries, simgs, http>>

\* Step 3 of apply_transformations
ApplySteps(w) ==
    LET me == wk[w]
        r == ApplyProcessingSteps(me.image, me.task_id,
                                  tasks[me.task_id].transformations)
        stepped == [me EXCEPT !.log = @ \o r.calls, !.steps_io = r.io]
    IN  /\ me.pc = "steps"
        /\ IF ~r.ok
           THEN wk' = Throw(w, stepped, r.exc)
           ELSE wk' = Upd(w, [stepped EXCEPT !.pc = "save_result",
                                 !.image = r.image])
        /\ UNCHANGED <<tasks, timgs, cache, deliveries, simgs, http>>

\* Step 4 of apply_transformations: _save_result_image; storage_up says
\* whether the upload of the file succeeds
SaveResultImage(w) ==
    LET me == wk[w]
        row == tasks[me.task_id]
        new_id == Len(timgs) + 1
    IN  /\ me.pc = "save_result"
        /\ Len(timgs) < MaxImages
        /\ \E storage_up \in BOOLEAN :
              IF ~EncodeOk(me.image, me.image_format)
              THEN /\ wk' = Throw(w, me, EncodeError)
                   /\ UNCHANGED timgs
              ELSE IF ~storage_up
              THEN /\ wk' = Throw(w, me, StorageUploadFailed)
                   /\ UNCHANGED timgs
              ELSE /\ timgs' = Append(timgs,
                            NewTransformedImage(me.image, me.task_id, row,
                                                me.image_format))
                   /\ wk' = Upd(w, [me EXCEPT !.pc = "cache_set",
                                       !.result_id = new_id,
                                       !.log = Append(@, Ev("create", "ok", new_id,
                                                            NullMsg, ""))])
        /\ UNCHANGED <<tasks, cache, deliveries, simgs, http>>

\* Steps 5 and 6 of apply_transformations: link the result and
\* set_transformed_image_id_to_cache, which swallows a failure of cache.set
LinkAndCache(w) ==
    LET me == wk[w]
        mem == LinkedMem(me.task, me.result_id)
    IN  /\ me.pc = "cache_set"
        /\ \E backend_up \in BOOLEAN :
              /\ cache' = IF backend_up
                          THEN CacheSet(cache, TaskKey(me.task_id), me.result_id)
                          ELSE cache
              /\ wk' = Upd(w, [me EXCEPT !.pc = "save_success", !.task = mem,
                                  !.log = Append(@, Ev("cache_set",
                                      IF backend_up THEN "ok" ELSE "ERROR",
                                      me.result_id, NullMsg, ""))])
        /\ UNCHANGED <<tasks, timgs, deliveries, simgs, http>>

\* the final save of apply_transformations
SaveSuccess(w) ==
    LET me == wk[w]
        mem == SuccessMem(me.task)
    IN  /\ me.pc = "save_success"
        /\ IF ~FKValid(mem.result_image)
           THEN /\ wk' = Throw(w, [me EXCEPT !.task = mem,
                                      !.log = Append(@, Ev("save_rejected",
                                          mem.status, mem.result_image,
                                          mem.error_message, ""))],
                               IntegrityError)
                /\ UNCHANGED tasks
           ELSE /\ tasks' = SavedTasks(me.task_id, mem)
                /\ wk' = Upd(w, [me EXCEPT !.pc = "done", !.task = mem,
                                    !.outcome = "returned",
                                    !.log = Append(@, SaveEv(mem))])
        /\ UNCHANGED <<timgs, cache, deliveries, simgs, http>>

\* the except clause of apply_transformations
HandleException(w) ==
    LET me == wk[w]
        mem == FailedMem(me.task, me.exc)
    IN  /\ me.pc = "except"
        /\ IF ~me.task_bound
           THEN /\ wk' = Upd(w, [me EXCEPT !.pc = "done", !.outcome = "raised",
                                    !.raised = me.exc])
                /\ UNCHANGED tasks
           ELSE IF ~FKValid(mem.result_image)
           THEN \* task.save() raises inside the handler
                /\ wk' = Upd(w, [me EXCEPT !.pc = "done", !.task = mem,
                                    !.outcome = "raised",
                                    !.raised = IntegrityError,
                                    !.log = Append(@, Ev("save_rejected",
                                        mem.status, mem.result_image,
                                        mem.error_message, ""))])
                /\ UNCHANGED tasks
           ELSE /\ tasks' = SavedTasks(me.task_id, mem)
                /\ wk' = Upd(w, [me EXCEPT !.pc = "done", !.task = mem,
                                    !.outcome = "raised",
                                    !.raised = me.exc,
                                    !.log = Append(@, SaveEv(mem))])
        /\ UNCHANGED <<timgs, cache, deliveries, simgs, http>>

\* the cache store drops an entry (expiry or eviction)
CacheEvict ==
    /\ \E e \in cache : cache' = cache \ {e}
    /\ UNCHANGED <<tasks, timgs, wk, deliveries, simgs, http>>

\* a TransformedImage is deleted through the admin site; result_image of the
\* tasks that reference it is SET_NULL
AdminDeleteTransformedImage(i) ==
    /\ i \in 1..Len(timgs)
    /\ timgs[i].live
    /\ timgs' = [timgs EXCEPT ![i].live = FALSE]
    /\ tasks' = [t \in DOMAIN tasks |->
                    IF tasks[t].result_image = i
                    THEN [tasks[t] EXCEPT !.result_image = NullId]
                    ELSE tasks[t]]
    /\ UNCHANGED <<cache, wk, deliveries, simgs, http>>

\* an external actor cancels a task that is not yet terminal
ExternalCancel(t) ==
    /\ tasks[t].status \in {PENDING, IN_PROGRESS}
    /\ tasks' = [tasks EXCEPT ![t].status = CANCELLED]
    /\ UNCHANGED <<timgs, cache, wk, deliveries, simgs, http>>

WorkerStep(w) ==
    \/ GetTask(w)
    \/ SetInProgress(w)
    \/ CacheLookup(w)
    \/ CacheHit(w)
    \/ LoadImage(w)
    \/ ApplySteps(w)
    \/ SaveResultImage(w)
    \/ LinkAndCache(w)
    \/ SaveSuccess(w)
    \/ HandleException(w)

Next ==
    \/ \E w \in Workers : \E task_id \in TaskIds \cup {MissingTaskId} :
            Deliver(w, task_id)
    \/ \E w \in Workers : WorkerStep(w)
    \/ CacheEvict
    \/ \E i \in 1..MaxImages : AdminDeleteTransformedImage(i)

Spec == Init /\ [][Next]_vars

\* the pipeline together with an external actor that cancels tasks
NextCancel ==
    \/ Next
    \/ \E t \in TaskIds : ExternalCancel(t)

SpecCancel == Init /\ [][NextCancel]_vars

----------------------------------------------------------------------------
(* The cache helpers of utils/utils.py on their own: the arguments are drawn
   from bounded sets and the helpers are applied to them *)

CropXYWH ==
    [operation |-> "crop",
     params |-> << <<"x", 0>>, <<"y", 0>>, <<"width", 2>>, <<"height", 2>> >>]

\* the same JSON object built in another insertion order
CropHWYX ==
    [operation |-> "crop",
     params |-> << <<"height", 2>>, <<"width", 2>>, <<"y", 0>>, <<"x", 0>> >>]

\* one parameter value changed
CropWide ==
    [operation |-> "crop",
     params |-> << <<"x", 0>>, <<"y", 0>>, <<"width", 3>>, <<"height", 2>> >>]

KeyTransformations ==
    { <<Flip>>, <<CropXYWH, Flip>>, <<CropHWYX, Flip>>, <<Flip, CropXYWH>>,
      <<CropWide, Flip>> }

KeyFormats == {"JPEG", "jpeg", "PNG", NoFormat, "None", "none", ""}

KeyRows ==
    {NewTask([owner |-> SourceImages[src].owner, original_image |-> src,
              transformations |-> t, format |-> f]) :
        src \in {1, 2}, t \in KeyTransformations, f \in KeyFormats}

\* two argument triples, held as two task rows
InitKey ==
    /\ tasks \in {<<a, b>> : a \in KeyRows, b \in KeyRows}
    /\ timgs = <<>>
    /\ cache = {}
    /\ wk = [w \in Workers |-> InitWorker]
    /\ deliveries = 0
    /\ simgs = SourceImages
    /\ http = NoRequest

\* set_transformed_image_id_to_cache on the arguments of row t; a failure of
\* cache.set is swallowed
SetToCache(t, transformed_image_id) ==
    /\ \E backend_up \in BOOLEAN :
          cache' = IF backend_up
                   THEN CacheSet(cache, TaskKey(t), transformed_image_id)
                   ELSE cache
    /\ UNCHANGED <<tasks, timgs, wk, deliveries, simgs, http>>

NextKey ==
    \/ \E t \in DOMAIN tasks : \E id \in 1..MaxImages : SetToCache(t, id)
    \/ CacheEvict

SpecKey == InitKey /\ [][NextKey]_vars

----------------------------------------------------------------------------
(* Several valid tasks, each delivered once, executed by independent workers
   in any interleaving *)

ResizeWide ==
    [operation |-> "resize", params |-> << <<"width", 4>>, <<"height", 2>> >>]

\* two valid tasks on the same source and format whose lists hold the same
\* two steps in opposite orders
ConcurrentProfiles ==
    << [owner |-> "alice", original_image |-> 1,
        transformations |-> <<CropXYWH, ResizeWide>>, format |-> "JPEG"],
       [owner |-> "alice", original_image |-> 1,
        transformations |-> <<ResizeWide, CropXYWH>>, format |-> "JPEG"] >>

ConcurrentTaskIds == 1..(NumTasks + 1)

InitConcurrent ==
    /\ tasks \in {[t \in ConcurrentTaskIds |-> NewTask(ConcurrentProfiles[f[t]])] :
                    f \in {g \in [ConcurrentTaskIds -> DOMAIN ConcurrentProfiles] :
                              \A t, u \in ConcurrentTaskIds : t < u => g[t] <= g[u]}}
    /\ timgs = <<>>
    /\ cache = {}
    /\ wk = [w \in Workers |-> InitWorker]
    /\ deliveries = 0
    /\ simgs = SourceImages
    /\ http = NoRequest

\* the queue hands a task id that was not delivered yet to the first worker
\* that has not run yet
DeliverOnce(w, task_id) ==
    /\ wk[w].pc = "idle"
    /\ \A v \in Workers : v < w => wk[v].pc # "idle"
    /\ \A v \in Workers : wk[v].task_id # task_id
    /\ wk' = Upd(w, [InitWorker EXCEPT !.pc = "get_task", !.task_id = task_id])
    /\ deliveries' = deliveries + 1
    /\ UNCHANGED <<tasks, timgs, cache, simgs, http>>

NextConcurrent ==
    \/ \E w \in Workers : \E task_id \in DOMAIN tasks : DeliverOnce(w, task_id)
    \/ \E w \in Workers : WorkerStep(w)

SpecConcurrent == InitConcurrent /\ [][NextConcurrent]_vars

----------------------------------------------------------------------------
(* Helpers of the properties *)

\* the indices of the events of kind ev in the log of worker w
Events(w, ev) == {i \in DOMAIN wk[w].log : wk[w].log[i].ev = ev}

\* worker w has finished the execution of an existing task
DoneOnTask(w) == wk[w].pc = "done" /\ wk[w].task_id \in DOMAIN tasks

\* a step of an execution of apply_transformations (every step of a worker
\* changes the worker, no other action does)
ExecutionStep == wk' # wk

LastEvent(w) == wk[w].log[Len(wk[w].log)]

----------------------------------------------------------------------------
(* C1 *)

\* C1: terminal invariant. Once the persisted status of a task is SUCCESS,
\* FAILED or CANCELLED, no step of an execution of apply_transformations
\* changes its persisted status, result_image or error_message.
C1_TerminalInvariant ==
    [][ExecutionStep =>
         \A t \in DOMAIN tasks :
            tasks[t].status \in TerminalStatus =>
               /\ tasks'[t].status = tasks[t].status
               /\ tasks'[t].result_image = tasks[t].result_image
               /\ tasks'[t].error_message = tasks[t].error_message]_vars

----------------------------------------------------------------------------
(* C2 *)

\* C2 (as stated): every change of a persisted status to SUCCESS or FAILED
\* starts from IN_PROGRESS.
C2_NoTransitionSkipsInProgress ==
    [][\A t \in DOMAIN tasks :
          (tasks'[t].status \in {SUCCESS, FAILED}
             /\ tasks'[t].status # tasks[t].status)
          => tasks[t].status = IN_PROGRESS]_vars

\* C2: within one execution of a task with a non-empty transformation list,
\* every save of SUCCESS or FAILED is preceded by this execution's save of
\* IN_PROGRESS; only the rejection of an empty list saves FAILED without one.
C2_SaveFollowsInProgress ==
    \A w \in Workers :
       \A i \in Events(w, "save") :
          wk[w].log[i].status \in {SUCCESS, FAILED} =>
             IF tasks[wk[w].task_id].transformations = <<>>
             THEN /\ wk[w].log[i].status = FAILED
                  /\ \A j \in Events(w, "save") : j = i
             ELSE \E j \in Events(w, "save") :
                     j < i /\ wk[w].log[j].status = IN_PROGRESS

\* an execution that fetched a PENDING task has saved IN_PROGRESS and then
\* SUCCESS
C2_Witness ==
    \E w \in Workers :
       /\ DoneOnTask(w)
       /\ wk[w].log[1].status = PENDING
       /\ \E i, j \in Events(w, "save") :
             /\ i < j
             /\ wk[w].log[i].status = IN_PROGRESS
             /\ wk[w].log[j].status = SUCCESS

----------------------------------------------------------------------------
(* C3 *)

EmptyListMessage == Msg("No transformations were defined for task.", "", 0, "")

\* C3: an execution on a PENDING task with an empty transformation list
\* never saves IN_PROGRESS and never consults the cache; when it ends it has
\* made exactly one save, of FAILED with the message that no transformations
\* were defined, and it raises NoTransformationsDefined.
C3_EmptyListRejected ==
    \A w \in Workers :
       (/\ Running(w) \/ wk[w].pc = "done"
        /\ Len(wk[w].log) > 0
        /\ wk[w].log[1].ev = "get"
        /\ wk[w].log[1].status = PENDING
        /\ tasks[wk[w].task_id].transformations = <<>>)
       => /\ Events(w, "cache_get") = {}
          /\ \A i \in Events(w, "save") : wk[w].log[i].status # IN_PROGRESS
          /\ wk[w].pc = "done" =>
                /\ Len(wk[w].log) = 2
                /\ wk[w].log[2].ev = "save"
                /\ wk[w].log[2].status = FAILED
                /\ wk[w].log[2].msg = EmptyListMessage
                /\ wk[w].log[2].id = NullId
                /\ wk[w].outcome = "raised"
                /\ wk[w].raised.kind = "NoTransformationsDefined"

C3_Witness ==
    \E w \in Workers :
       /\ DoneOnTask(w)
       /\ wk[w].log[1].status = PENDING
       /\ tasks[wk[w].task_id].transformations = <<>>
       /\ tasks[wk[w].task_id].status = FAILED
       /\ tasks[wk[w].task_id].error_message = EmptyListMessage

----------------------------------------------------------------------------
(* C4 *)

\* the cache lookup of worker w's execution was a hit
CacheWasHit(w) ==
    \E i \in Events(w, "cache_get") : wk[w].log[i].status = "HIT"

\* C4: after a cache hit the execution sets result_image to the
\* cached id, persists SUCCESS and returns, without opening the source,
\* running a step, creating a TransformedImage or writing the cache.
C4_CacheHitPersistsSuccess ==
    \A w \in Workers :
       CacheWasHit(w) =>
          /\ Events(w, "open") \cup Events(w, "step") \cup Events(w, "create")
                \cup Events(w, "cache_set") = {}
          /\ wk[w].pc = "done" =>
                /\ wk[w].outcome = "returned"
                /\ LastEvent(w).ev = "save"
                /\ LastEvent(w).status = SUCCESS
                /\ LastEvent(w).id = wk[w].cached_image_id

----------------------------------------------------------------------------
(* C5 *)

\* C5: whenever a step of an execution persists status SUCCESS for a task,
\* the result_image persisted with it is non-null and refers to a
\* TransformedImage row that exists at that moment.
C5_SuccessHasExistingResult ==
    [][ExecutionStep =>
         \A t \in DOMAIN tasks :
            (tasks'[t] # tasks[t] /\ tasks'[t].status = SUCCESS) =>
               /\ tasks'[t].result_image # NullId
               /\ tasks'[t].result_image \in 1..Len(timgs')
               /\ timgs'[tasks'[t].result_image].live]_vars

\* SUCCESS was persisted on the compute path with the TransformedImage the
\* execution created
C5_Witness ==
    \E w \in Workers :
       /\ DoneOnTask(w)
       /\ ~CacheWasHit(w)
       /\ wk[w].outcome = "returned"
       /\ Events(w, "create") # {}
       /\ tasks[wk[w].task_id].status = SUCCESS
       /\ tasks[wk[w].task_id].result_image = wk[w].result_id
       /\ timgs[wk[w].result_id].live

----------------------------------------------------------------------------
(* C6 *)

\* C6: a task whose persisted status is FAILED has a non-null error_message
\* and a null result_image.
C6_FailedHasMessageAndNoResult ==
    \A t \in DOMAIN tasks :
       tasks[t].status = FAILED =>
          /\ tasks[t].error_message # NullMsg
          /\ tasks[t].result_image = NullId

----------------------------------------------------------------------------
(* C7 *)

\* the execution of worker w persisted IN_PROGRESS
SavedInProgress(w) ==
    \E i \in Events(w, "save") : wk[w].log[i].status = IN_PROGRESS

\* C7: an execution that persisted IN_PROGRESS and then met an exception
\* ends with FAILED persisted, error_message the message of that exception,
\* and that exception raised to the caller; an execution returns normally
\* only if it persisted SUCCESS.
C7_ExceptionPersistsFailedAndReraises ==
    \A w \in Workers :
       (DoneOnTask(w) /\ SavedInProgress(w)) =>
          /\ wk[w].exc # NoExc =>
                /\ wk[w].outcome = "raised"
                /\ wk[w].raised = wk[w].exc
                /\ LastEvent(w).ev = "save"
                /\ LastEvent(w).status = FAILED
                /\ LastEvent(w).msg = wk[w].exc.msg
          /\ wk[w].outcome = "returned" =>
                /\ LastEvent(w).ev = "save"
                /\ LastEvent(w).status = SUCCESS

----------------------------------------------------------------------------
(* C8 *)

\* C8: an execution for an id that resolves to no task changes no task, no
\* TransformedImage and no cache entry, and ends raising TaskNotFound.
C8_MissingTaskRaisesAndWritesNothing ==
    [][\A w \in Workers :
          (wk[w].task_id \notin DOMAIN tasks /\ Running(w) /\ wk'[w] # wk[w]) =>
             /\ UNCHANGED <<tasks, timgs, cache, simgs, http>>
             /\ wk'[w].pc = "done" =>
                   /\ wk'[w].outcome = "raised"
                   /\ wk'[w].raised.kind = "TaskNotFound"
                   /\ wk'[w].raised.msg.task = wk[w].task_id
                   /\ Events(w, "save") = {}]_vars

C8_Witness ==
    \E w \in Workers :
       /\ wk[w].pc = "done"
       /\ wk[w].task_id = MissingTaskId
       /\ wk[w].outcome = "raised"
       /\ wk[w].raised.kind = "TaskNotFound"

----------------------------------------------------------------------------
(* C9 *)

\* C9: a failure of the cache store never fails a task: no execution ends
\* raising the cache error and no task records it as its error.
C9_CacheErrorsNeverFailTask ==
    /\ \A w \in Workers :
          (wk[w].pc = "done" /\ \E i \in Events(w, "cache_get") :
                                   wk[w].log[i].status = "ERROR")
          => wk[w].raised.kind # "CacheError"
    /\ \A t \in DOMAIN tasks :
          tasks[t].status = FAILED => tasks[t].error_message # CacheError.msg

----------------------------------------------------------------------------
(* C10 *)

\* the TransformedImage rows ever created for task t
CreatedFor(t) == {i \in 1..Len(timgs) : timgs[i].transformation_task = t}

\* C10: at most one TransformedImage with transformation_task t has been
\* created, whatever deliveries of t happened.
C10_AtMostOneResultPerTask ==
    \A t \in DOMAIN tasks : Cardinality(CreatedFor(t)) <= 1

----------------------------------------------------------------------------
(* C11 *)

\* the task of worker w's execution was terminal when it was fetched
FetchedTerminal(w) ==
    /\ Len(wk[w].log) > 0
    /\ wk[w].log[1].ev = "get"
    /\ wk[w].log[1].status \in TerminalStatus

\* C11: an execution that fetched its task in status SUCCESS, FAILED or
\* CANCELLED makes no task save, no cache read or write, no transformation
\* step and creates no TransformedImage.
C11_TerminalTaskNotReexecuted ==
    \A w \in Workers :
       FetchedTerminal(w) =>
          Events(w, "save") \cup Events(w, "save_rejected")
             \cup Events(w, "cache_get") \cup Events(w, "cache_set")
             \cup Events(w, "open") \cup Events(w, "step")
             \cup Events(w, "create") = {}

----------------------------------------------------------------------------
(* C12 *)

\* C12: a delivery of a task that an earlier delivery brought to SUCCESS or
\* FAILED ends with the persisted status, result_image and error_message it
\* found and has created no TransformedImage: two deliveries leave what one
\* delivery leaves.
C12_RetryIdempotent ==
    \A w \in Workers :
       (DoneOnTask(w) /\ wk[w].fetched.status \in {SUCCESS, FAILED}) =>
          /\ Events(w, "create") = {}
          /\ Events(w, "save") # {} =>
                LET last == CHOOSE i \in Events(w, "save") :
                                \A j \in Events(w, "save") : j <= i
                IN  /\ wk[w].log[last].status = wk[w].fetched.status
                    /\ wk[w].log[last].id = wk[w].fetched.result_image
                    /\ wk[w].log[last].msg = wk[w].fetched.error_message

----------------------------------------------------------------------------
(* C15 *)

\* the members of a JSON object, whatever their insertion order
ParamSet(params) == {params[i] : i \in 1..Len(params)}

\* two transformation lists that differ at most in the insertion order of
\* the keys inside the parameter maps
SameUpToKeyOrder(t, u) ==
    /\ Len(t) = Len(u)
    /\ \A i \in 1..Len(t) :
          /\ t[i].operation = u[i].operation
          /\ Len(t[i].params) = Len(u[i].params)
          /\ ParamSet(t[i].params) = ParamSet(u[i].params)

\* two different formats: a format and no format, or two format strings
\* that differ in more than case
DifferentFormats(f, g) ==
    /\ f # "" /\ g # ""
    /\ IF f = NoFormat \/ g = NoFormat THEN f # g ELSE Lower(f) # Lower(g)

\* C15: the key is the same for two argument triples that differ only in
\* the insertion order of parameter keys, and differs when the format
\* differs, when a parameter value differs or when two different steps are
\* permuted (any two lists that are not equal up to key order).
C15_CacheKeyDeterminism ==
    LET a == tasks[1]
        b == tasks[2]
    IN  Len(tasks) = 2 =>
          /\ (/\ a.original_image = b.original_image
              /\ a.format = b.format
              /\ SameUpToKeyOrder(a.transformations, b.transformations))
             => TaskKey(1) = TaskKey(2)
          /\ DifferentFormats(a.format, b.format) => TaskKey(1) # TaskKey(2)
          /\ ~SameUpToKeyOrder(a.transformations, b.transformations)
             => TaskKey(1) # TaskKey(2)

\* an id stored under the key of one row is found under the key of a row
\* whose parameter maps were built in another insertion order
C15_Witness ==
    /\ Len(tasks) = 2
    /\ tasks[1].transformations = <<CropXYWH, Flip>>
    /\ tasks[2].transformations = <<CropHWYX, Flip>>
    /\ tasks[1].original_image = tasks[2].original_image
    /\ tasks[1].format = tasks[2].format
    /\ cache # {}
    /\ CacheGet(cache, TaskKey(1)) # NullId
    /\ CacheGet(cache, TaskKey(2)) = CacheGet(cache, TaskKey(1))

----------------------------------------------------------------------------
(* C16 *)

\* C16: formats equal after lower-casing give the same key, and the key for
\* a null format differs from the key for every format string, "None",
\* "none" and the empty string included.
C16_FormatCaseAndNullSentinel ==
    LET a == tasks[1]
        b == tasks[2]
    IN  (/\ Len(tasks) = 2
         /\ a.original_image = b.original_image
         /\ a.transformations = b.transformations)
        => /\ (/\ a.format # NoFormat /\ b.format # NoFormat
               /\ Lower(a.format) = Lower(b.format))
              => TaskKey(1) = TaskKey(2)
           /\ (a.format = NoFormat /\ b.format # NoFormat)
              => TaskKey(1) # TaskKey(2)

----------------------------------------------------------------------------
(* C18 *)

\* the execution of worker w was ended by a step of the list: an unknown
\* operation or a transform that raised
StepFailed(w) ==
    wk[w].exc.kind \in {"InvalidTransformation", "TransformationFailed"}

\* the position of the step that ended the execution: one more than the
\* number of calls that returned
FailedStep(w) == Len(wk[w].steps_io) + 1

\* C18: when step k of the list fails validation or execution, no step
\* after k is executed, the execution creates no TransformedImage and writes
\* no cache entry, and it ends with FAILED and a null result_image persisted.
C18_FailFastNoPartialResult ==
    \A w \in Workers :
       StepFailed(w) =>
          /\ \A i \in Events(w, "step") : wk[w].log[i].id <= FailedStep(w)
          /\ \A i \in Events(w, "step") :
                wk[w].log[i].status = "raised" =>
                   /\ wk[w].log[i].id = FailedStep(w)
                   /\ \A j \in Events(w, "step") : j <= i
          /\ Events(w, "create") = {}
          /\ Events(w, "cache_set") = {}
          /\ wk[w].pc = "done" =>
                /\ wk[w].outcome = "raised"
                /\ LastEvent(w).ev = "save"
                /\ LastEvent(w).status = FAILED
                /\ LastEvent(w).id = NullId
                /\ LastEvent(w).msg = wk[w].exc.msg

\* the second step of a list of three raised: the first step ran, the third
\* did not, and the task is persisted FAILED without a result
C18_Witness ==
    \E w \in Workers :
       /\ DoneOnTask(w)
       /\ wk[w].exc.kind = "TransformationFailed"
       /\ Len(tasks[wk[w].task_id].transformations) = 3
       /\ FailedStep(w) = 2
       /\ tasks[wk[w].task_id].status = FAILED
       /\ tasks[wk[w].task_id].result_image = NullId
       /\ timgs = <<>>

----------------------------------------------------------------------------
(* C19 *)

\* the list of task t holds a step whose operation is not in
\* TRANSFORMATION_MAP
HasUnknownOperation(t) ==
    \E i \in 1..Len(tasks[t].transformations) :
       tasks[t].transformations[i].operation \notin TRANSFORMATION_MAP

\* C19: an execution of a task whose list holds an unknown operation runs no
\* transformation step, the valid steps before the unknown one included,
\* and once it has reached the steps it ends FAILED with an
\* InvalidTransformation error naming the operation.
C19_UnknownOperationRunsNoStep ==
    \A w \in Workers :
       (wk[w].task_id \in DOMAIN tasks /\ HasUnknownOperation(wk[w].task_id)) =>
          /\ Events(w, "step") = {}
          /\ (wk[w].pc = "done" /\ Events(w, "open") # {}
                 /\ wk[w].exc.kind # "ImageOpenError") =>
                /\ wk[w].raised.kind = "InvalidTransformation"
                /\ wk[w].raised.msg.op \notin TRANSFORMATION_MAP
                /\ LastEvent(w).ev = "save"
                /\ LastEvent(w).status = FAILED

----------------------------------------------------------------------------
(* C20 *)

\* C20: in every execution the save of IN_PROGRESS precedes the cache get,
\* the opening of the source, every step, the creation of the result and
\* the cache write; from that save until the execution saves again the
\* persisted status of the task is IN_PROGRESS.
C20_InProgressBeforeCache ==
    \A w \in Workers :
       /\ \A i \in Events(w, "cache_get") \cup Events(w, "open")
                   \cup Events(w, "step") \cup Events(w, "create")
                   \cup Events(w, "cache_set") :
             \E j \in Events(w, "save") :
                j < i /\ wk[w].log[j].status = IN_PROGRESS
       /\ (/\ Running(w)
           /\ wk[w].pc \notin {"get_task", "set_status"}
           /\ wk[w].pc = "except" => wk[w].task_bound)
          => tasks[wk[w].task_id].status = IN_PROGRESS

\* an execution that fetched a PENDING task has consulted the cache and
\* stands before the source load: the task is persisted IN_PROGRESS
C20_Witness ==
    \E w \in Workers :
       /\ wk[w].pc = "load"
       /\ wk[w].log[1].status = PENDING
       /\ Events(w, "cache_get") # {}
       /\ tasks[wk[w].task_id].status = IN_PROGRESS

----------------------------------------------------------------------------
(* C13 *)

\* a collaborator failed during the execution of worker w: the cache store
\* on get, the file storage on read or on upload
CollaboratorFailed(w) ==
    wk[w].exc.kind \in {"CacheError", "ImageOpenError", "StorageUploadFailed"}

\* worker w has executed task t to the end with working collaborators
Completed(w, t) ==
    /\ wk[w].task_id = t
    /\ wk[w].pc = "done"
    /\ ~CollaboratorFailed(w)

RECURSIVE StepsInOrder(_, _, _)
\* the image after the first n steps of the list, applied left to right
StepsInOrder(image, transformations, n) ==
    IF n = 0 THEN image
    ELSE CallTransform(transformations[n].operation,
                       StepsInOrder(image, transformations, n - 1),
                       transformations[n].params).image

\* what the result of task t must record: the whole chain applied to the
\* task's source, in the task's format, without an alpha channel
ExpectedMetadata(t) ==
    LET src == simgs[tasks[t].original_image]
        out == StepsInOrder(Bitmap(src.width, src.height, src.mode),
                            tasks[t].transformations,
                            Len(tasks[t].transformations))
    IN  [format |-> tasks[t].format,
         mode |-> IF out.mode = "RGBA" THEN "RGB" ELSE out.mode,
         width |-> out.width, height |-> out.height]

\* TransformedImage i is a complete result for the inputs of task t
CompleteResultOf(i, t) ==
    /\ i \in 1..Len(timgs)
    /\ timgs[i].live
    /\ timgs[i].source_image = tasks[t].original_image
    /\ timgs[i].metadata = ExpectedMetadata(t)

\* the tasks with the source, transformations and format of task t
SameInputs(t) ==
    {u \in DOMAIN tasks :
        /\ tasks[u].original_image = tasks[t].original_image
        /\ tasks[u].transformations = tasks[t].transformations
        /\ tasks[u].format = tasks[t].format}

\* C13: of the tasks that share one (source, transformations, format), each
\* one executed with working collaborators ends SUCCESS with a result_image
\* that is a complete result of the chain; once all of them are executed
\* and every cache write went through, the cache maps the key to the
\* result of one of them.
C13_SameKeyRace ==
    \A t \in DOMAIN tasks :
       Cardinality(SameInputs(t)) > 1 =>
          /\ \A w \in Workers :
                Completed(w, t) =>
                   /\ wk[w].outcome = "returned"
                   /\ tasks[t].status = SUCCESS
                   /\ CompleteResultOf(tasks[t].result_image, t)
          /\ (\A u \in SameInputs(t) :
                 \E w \in Workers :
                    /\ Completed(w, u)
                    /\ \A i \in Events(w, "cache_set") :
                          wk[w].log[i].status = "ok")
             => CacheGet(cache, TaskKey(t)) \in
                   {tasks[u].result_image : u \in SameInputs(t)}

\* two workers have executed two tasks with the same inputs, both missed
\* the cache and each created its own result
C13_Witness ==
    \E v, w \in Workers :
       /\ v # w
       /\ wk[v].pc = "done" /\ wk[w].pc = "done"
       /\ wk[v].task_id # wk[w].task_id
       /\ wk[v].task_id \in DOMAIN tasks /\ wk[w].task_id \in DOMAIN tasks
       /\ wk[w].task_id \in SameInputs(wk[v].task_id)
       /\ ~CacheWasHit(v) /\ ~CacheWasHit(w)
       /\ tasks[wk[v].task_id].status = SUCCESS
       /\ tasks[wk[w].task_id].status = SUCCESS
       /\ tasks[wk[v].task_id].result_image # tasks[wk[w].task_id].result_image
       /\ CacheGet(cache, TaskKey(wk[v].task_id)) # NullId

----------------------------------------------------------------------------
(* C14 *)

\* C14: a task whose transformation list differs from the list of every
\* other task, executed with working collaborators while other tasks are
\* executed in any interleaving, ends SUCCESS with a result_image that was
\* created for this task from its own source and its own list.
C14_DistinctTasksDoNotInterfere ==
    \A t \in DOMAIN tasks :
       (\A u \in DOMAIN tasks \ {t} :
           tasks[u].transformations # tasks[t].transformations) =>
          \A w \in Workers :
             Completed(w, t) =>
                /\ wk[w].outcome = "returned"
                /\ tasks[t].status = SUCCESS
                /\ tasks[t].result_image # NullId
                /\ CompleteResultOf(tasks[t].result_image, t)
                /\ timgs[tasks[t].result_image].transformation_task = t

\* two tasks with different lists on the same source were executed, each
\* has its own result
C14_Witness ==
    \E v, w \in Workers :
       /\ v # w
       /\ Completed(v, wk[v].task_id) /\ Completed(w, wk[w].task_id)
       /\ wk[v].task_id \in DOMAIN tasks /\ wk[w].task_id \in DOMAIN tasks
       /\ tasks[wk[v].task_id].transformations
             # tasks[wk[w].task_id].transformations
       /\ tasks[wk[v].task_id].status = SUCCESS
       /\ tasks[wk[w].task_id].status = SUCCESS
       /\ timgs[tasks[wk[v].task_id].result_image].transformation_task
             = wk[v].task_id
       /\ timgs[tasks[wk[w].task_id].result_image].transformation_task
             = wk[w].task_id

----------------------------------------------------------------------------
(* C17 *)

\* the chain of worker w's execution ran to its end
ChainReturned(w) == wk[w].steps_io # <<>> /\ ~StepFailed(w)

\* C17: in an execution whose chain ran to its end, the transform calls are
\* the steps of task.transformations in list order, each exactly once; the
\* first call receives the decoded source image and every later call the
\* image the call before it returned.
C17_StepsInListOrder ==
    \A w \in Workers :
       ChainReturned(w) =>
          LET list == tasks[wk[w].task_id].transformations
              src == simgs[tasks[wk[w].task_id].original_image]
              io == wk[w].steps_io
              steps == Events(w, "step")
          IN  /\ Len(io) = Len(list)
              /\ \A k \in 1..Len(io) :
                    /\ io[k].operation = list[k].operation
                    /\ io[k].output =
                          CallTransform(list[k].operation, io[k].input,
                                        list[k].params).image
                    /\ k > 1 => io[k].input = io[k - 1].output
              /\ io[1].input = Bitmap(src.width, src.height, src.mode)
              /\ {wk[w].log[i].id : i \in steps} = 1..Len(list)
              /\ \A i, j \in steps : i < j => wk[w].log[i].id < wk[w].log[j].id

\* a crop followed by a resize was executed and the result has the size the
\* resize gives, not the size of the crop
C17_Witness ==
    \E w \in Workers :
       /\ DoneOnTask(w)
       /\ wk[w].outcome = "returned"
       /\ tasks[wk[w].task_id].transformations = <<CropXYWH, ResizeWide>>
       /\ Len(wk[w].steps_io) = 2
       /\ wk[w].result_id # NullId
       /\ timgs[wk[w].result_id].metadata.width = 4
       /\ timgs[wk[w].result_id].metadata.height = 2

----------------------------------------------------------------------------
(* C28 *)

\* worker w completes its call on an existing task in this step
Completes(w) ==
    /\ wk[w].pc # "done"
    /\ wk'[w].pc = "done"
    /\ wk[w].task_id \in DOMAIN tasks

\* C28: when a call of apply_transformations on an existing task completes
\* (returning or raising), the persisted status of the task is SUCCESS or
\* FAILED, never PENDING or IN_PROGRESS.
C28_CompletedCallLeavesTerminalStatus ==
    [][\A w \in Workers :
          Completes(w) => tasks'[wk[w].task_id].status \in {SUCCESS, FAILED}]_vars

----------------------------------------------------------------------------
(* The pipeline over ranges of step parameters, source modes and formats *)

MaxOffset == 1

MaxSide == 5

Crop(x, y, width, height) ==
    [operation |-> "crop",
     params |-> << <<"x", x>>, <<"y", y>>, <<"width", width>>,
                   <<"height", height>> >>]

Resize(width, height) ==
    [operation |-> "resize",
     params |-> << <<"width", width>>, <<"height", height>> >>]

WatermarkText(watermark_text) ==
    [operation |-> "watermark",
     params |-> << <<"watermark_text", watermark_text>> >>]

ApplyFilter(kwargs) == [operation |-> "apply_filter", params |-> kwargs]

\* the source images of these runs: the three of SourceImages and a
\* grayscale one
TransformSources ==
    SourceImages
    @@
    4 :> [owner |-> "alice", file_name |-> "sketch", description |-> "a sketch",
          metadata |-> [present |-> TRUE, format |-> "PNG"],
          mode |-> "L", width |-> 4, height |-> 4]

Profile(original_image, transformations, format) ==
    [owner |-> TransformSources[original_image].owner,
     original_image |-> original_image,
     transformations |-> transformations, format |-> format]

\* one crop on the 4x4 source, inside, on and over its edges, with zero and
\* negative sizes
CropProfiles ==
    {Profile(1, <<Crop(x, y, width, height)>>, "PNG") :
        x \in 0..MaxOffset, y \in 0..MaxOffset,
        width \in -1..MaxSide, height \in -1..MaxSide}

ResizeSides == {-1, 0, 1, MaxSide}

ResizeProfiles ==
    {Profile(1, <<Resize(width, height)>>, "PNG") :
        width \in ResizeSides, height \in ResizeSides}

\* a watermark, alone or after another step, on sources of mode RGB, RGBA
\* and L, encoded as JPEG
WatermarkProfiles ==
    {Profile(src, pre \o <<WatermarkText(watermark_text)>>, "JPEG") :
        src \in DOMAIN TransformSources,
        pre \in {<<>>, <<Flip>>, <<ApplyFilter(<< <<"grayscale", TRUE>> >>)>>},
        watermark_text \in {"", "wm"}}

FilterKwargs ==
    { << <<"sepia", TRUE>> >>,
      << <<"BLUR", TRUE>> >>,
      << <<"grayscale", TRUE>>, <<"sepia", TRUE>> >>,
      << <<"grayscale", TRUE>>, <<"sharpen", TRUE>> >>,
      << <<"sharpen", TRUE>>, <<"grayscale", TRUE>> >> }

ApplyFilterProfiles ==
    {Profile(1, <<ApplyFilter(kwargs)>>, "JPEG") : kwargs \in FilterKwargs}

\* one valid step with every combination of task format and source metadata
FormatProfiles ==
    {Profile(src, <<Flip>>, format) :
        src \in DOMAIN TransformSources, format \in {NoFormat, "JPEG", "PNG"}}

Rotate(degrees) ==
    [operation |-> "rotate", params |-> << <<"degrees", degrees>> >>]

\* one rotation of the square 4x4 source, by multiples of 90 and by other
\* angles
RotateProfiles ==
    {Profile(1, <<Rotate(degrees)>>, "PNG") : degrees \in {0, 30, 45, 90, 180}}

InitTransform ==
    /\ \/ tasks \in {<<NewTask(p)>> : p \in CropProfiles}
       \/ tasks \in {<<NewTask(p)>> : p \in RotateProfiles}
       \/ tasks \in {<<NewTask(p)>> : p \in ResizeProfiles}
       \/ tasks \in {<<NewTask(p)>> : p \in WatermarkProfiles}
       \/ tasks \in {<<NewTask(p)>> : p \in ApplyFilterProfiles}
       \/ tasks \in {<<NewTask(p)>> : p \in FormatProfiles}
    /\ timgs = <<>>
    /\ cache = {}
    /\ wk = [w \in Workers |-> InitWorker]
    /\ deliveries = 0
    /\ simgs = TransformSources
    /\ http = NoRequest

NextTransform ==
    \/ \E w \in Workers : \E task_id \in DOMAIN tasks : Deliver(w, task_id)
    \/ \E w \in Workers : WorkerStep(w)

SpecTransform == InitTransform /\ [][NextTransform]_vars

\* the first step of the list of worker w's task, when it is operation op
FirstStepIs(w, op) ==
    /\ wk[w].task_id \in DOMAIN tasks
    /\ tasks[wk[w].task_id].transformations # <<>>
    /\ tasks[wk[w].task_id].transformations[1].operation = op

\* the calls of step i of the list that worker w's execution made
CallsOfStep(w, i) ==
    {j \in Events(w, "step") : wk[w].log[j].id = i}

----------------------------------------------------------------------------
(* C21 *)

\* C21: crop on a W x H image with parameters x, y, width, height fails
\* exactly when x + width > W, y + height > H, width <= 0 or height <= 0;
\* in every other case it returns an image of exactly width x height.
C21_CropFailsIffOutOfDomain ==
    \A w \in Workers :
       (FirstStepIs(w, "crop") /\ CallsOfStep(w, 1) # {}) =>
          LET t == wk[w].task_id
              params == tasks[t].transformations[1].params
              src == simgs[tasks[t].original_image]
              x == Param(params, "x")
              y == Param(params, "y")
              width == Param(params, "width")
              height == Param(params, "height")
              call == wk[w].log[CHOOSE j \in CallsOfStep(w, 1) : TRUE]
              outside == \/ x + width > src.width
                         \/ y + height > src.height
                         \/ width <= 0
                         \/ height <= 0
          IN  /\ (call.status = "raised") <=> outside
              /\ call.status = "ok" =>
                    /\ wk[w].steps_io[1].output.width = width
                    /\ wk[w].steps_io[1].output.height = height

----------------------------------------------------------------------------
(* C22 *)

\* the list of task t holds a watermark step with a non-empty text
HasWatermark(t) ==
    \E i \in DOMAIN tasks[t].transformations :
       /\ tasks[t].transformations[i].operation = "watermark"
       /\ Param(tasks[t].transformations[i].params, "watermark_text") # ""

\* C22: a chain that contains a watermark step with a non-empty text and has
\* JPEG as target format, on a source of mode L, RGB or RGBA and whatever
\* steps precede the watermark, executed with working collaborators, ends
\* SUCCESS with a result in an opaque mode; it never fails in the watermark
\* step or in the encoder.
C22_WatermarkChainEncodesAsJpeg ==
    \A w \in Workers :
       LET t == wk[w].task_id
       IN  (/\ wk[w].pc = "done"
            /\ t \in DOMAIN tasks
            /\ ~CollaboratorFailed(w)
            /\ HasWatermark(t)
            /\ tasks[t].format = "JPEG") =>
               /\ wk[w].exc.kind \notin {"TransformationFailed", "EncodeError"}
               /\ tasks[t].status = SUCCESS
               /\ tasks[t].result_image \in 1..Len(timgs)
               /\ timgs[tasks[t].result_image].metadata.mode \in {"RGB", "L"}

----------------------------------------------------------------------------
(* C29 *)

\* the mapping of the apply_filter step that opens the list of worker w's
\* task names a filter that is not in AVAILABLE_FILTERS
NamesUnknownFilter(w) ==
    /\ FirstStepIs(w, "apply_filter")
    /\ \E name \in ParamNames(tasks[wk[w].task_id].transformations[1].params) :
          Upper(name) \notin AVAILABLE_FILTERS

\* C29: an execution whose apply_filter step names a filter outside
\* AVAILABLE_FILTERS ends with the task FAILED and an error of kind
\* InvalidTransformation, not TransformationFailed, and persists no output.
C29_UnknownFilterIsInvalidTransformation ==
    \A w \in Workers :
       (/\ wk[w].pc = "done"
        /\ NamesUnknownFilter(w)
        /\ CallsOfStep(w, 1) # {}) =>
           /\ tasks[wk[w].task_id].status = FAILED
           /\ wk[w].exc.kind = "InvalidTransformation"
           /\ Events(w, "create") = {}

----------------------------------------------------------------------------
(* C30 *)

\* the first step of worker w's task has a parameter outside the domain of
\* its operation: a crop box that exceeds the image, an empty watermark
\* text, a resize to a non-positive size
OutOfDomainParams(w) ==
    LET t == wk[w].task_id
        params == tasks[t].transformations[1].params
        src == simgs[tasks[t].original_image]
    IN  \/ /\ FirstStepIs(w, "crop")
           /\ \/ Param(params, "x") + Param(params, "width") > src.width
              \/ Param(params, "y") + Param(params, "height") > src.height
        \/ /\ FirstStepIs(w, "watermark")
           /\ Param(params, "watermark_text") = ""
        \/ /\ FirstStepIs(w, "resize")
           /\ \/ Param(params, "width") <= 0
              \/ Param(params, "height") <= 0

\* C30: an execution whose step has out-of-domain parameters ends with the
\* task FAILED and an error of kind InvalidParameter, which a caller can
\* tell from the TransformationFailed of an internal processing error.
C30_OutOfDomainIsInvalidParameter ==
    \A w \in Workers :
       (/\ wk[w].pc = "done"
        /\ OutOfDomainParams(w)
        /\ CallsOfStep(w, 1) # {}) =>
           /\ tasks[wk[w].task_id].status = FAILED
           /\ wk[w].exc.kind = "InvalidParameter"

----------------------------------------------------------------------------
(* C23 *)

\* the format the result of task t is to be encoded in
ResolvedFormat(t) ==
    IF tasks[t].format # NoFormat
    THEN tasks[t].format
    ELSE simgs[tasks[t].original_image].metadata.format

\* task t has no format and its source records none
NoFormatAnywhere(t) ==
    /\ tasks[t].format = NoFormat
    /\ \/ ~simgs[tasks[t].original_image].metadata.present
       \/ simgs[tasks[t].original_image].metadata.format \in {NoFormat, ""}

\* C23: the format an execution encodes in is the task's format when the task
\* has one, else the "format" entry of the source's metadata; the
\* TransformedImage it creates records that format. An execution of a task
\* without a format on a source without metadata or without a format entry
\* ends FAILED, having executed no step and created no TransformedImage.
C23_FormatResolution ==
    \A w \in Workers :
       LET t == wk[w].task_id
       IN  t \in DOMAIN tasks =>
              /\ wk[w].image_format # NoFormat =>
                    wk[w].image_format = ResolvedFormat(t)
              /\ \A i \in Events(w, "create") :
                    LET img == timgs[wk[w].log[i].id]
                    IN  /\ img.metadata.format = ResolvedFormat(t)
                        /\ img.file_name[3] = Lower(ResolvedFormat(t))
              /\ (wk[w].pc = "done" /\ NoFormatAnywhere(t)) =>
                    /\ tasks[t].status = FAILED
                    /\ wk[w].exc.kind \in
                          {"OriginalImageNotFound", "CacheError", "ImageOpenError"}
                    /\ Events(w, "step") = {}
                    /\ CreatedFor(t) = {}

\* a task without a format on a source whose metadata records one was
\* executed and its result is encoded in the source's format
C23_Witness ==
    \E w \in Workers :
       /\ DoneOnTask(w)
       /\ tasks[wk[w].task_id].format = NoFormat
       /\ ~NoFormatAnywhere(wk[w].task_id)
       /\ tasks[wk[w].task_id].status = SUCCESS
       /\ Events(w, "create") # {}
       /\ timgs[wk[w].result_id].metadata.format
             = simgs[tasks[wk[w].task_id].original_image].metadata.format

----------------------------------------------------------------------------
(* Deletion of rows: the on_delete rules of api/models.py *)

\* the tasks deleted with the sources S and the tasks T: original_image is
\* CASCADE
CascadedTasks(S, T) ==
    T \cup {t \in DOMAIN tasks : tasks[t].original_image \in S}

\* variant: transformation_task does not cascade to the TransformedImage
CascadedImages_SourceOnly(S, T, I) ==
    I \cup {i \in 1..Len(timgs) : timgs[i].live /\ timgs[i].source_image \in S}

\* the TransformedImages deleted with the sources S, the tasks T and the
\* images I: source_image and transformation_task are CASCADE
CascadedImages(S, T, I) ==
    I \cup {i \in 1..Len(timgs) :
              /\ timgs[i].live
              /\ \/ timgs[i].source_image \in S
                 \/ timgs[i].transformation_task \in CascadedTasks(S, T)}

\* Model.delete() of the given rows: the collector deletes the dependent
\* rows and nulls result_image (SET_NULL) of the tasks that stay
DeleteRows(S, T, I) ==
    LET gone_tasks == CascadedTasks(S, T)
        gone_images == CascadedImages(S, T, I)
    IN  /\ simgs' = [s \in DOMAIN simgs \ S |-> simgs[s]]
        /\ tasks' = [t \in DOMAIN tasks \ gone_tasks |->
                        IF tasks[t].result_image \in gone_images
                        THEN [tasks[t] EXCEPT !.result_image = NullId]
                        ELSE tasks[t]]
        /\ timgs' = [i \in DOMAIN timgs |->
                        IF i \in gone_images
                        THEN [timgs[i] EXCEPT !.live = FALSE]
                        ELSE timgs[i]]

\* no execution is between its fetch and its last save
Quiescent == \A w \in Workers : ~Running(w)

\* a SourceImage is deleted through the admin site
DeleteSourceImage(s) ==
    /\ Quiescent
    /\ s \in DOMAIN simgs
    /\ DeleteRows({s}, {}, {})
    /\ UNCHANGED <<cache, wk, deliveries, http>>

\* a TransformationTask is deleted
DeleteTransformationTask(t) ==
    /\ Quiescent
    /\ t \in DOMAIN tasks
    /\ DeleteRows({}, {t}, {})
    /\ UNCHANGED <<cache, wk, deliveries, http>>

\* a TransformedImage is deleted through the admin site
DeleteTransformedImage(i) ==
    /\ Quiescent
    /\ i \in 1..Len(timgs)
    /\ timgs[i].live
    /\ DeleteRows({}, {}, {i})
    /\ UNCHANGED <<cache, wk, deliveries, http>>

\* executions of the tasks of InitConcurrent and deletions of rows between
\* executions
NextDelete ==
    \/ \E w \in Workers : \E task_id \in DOMAIN tasks : DeliverOnce(w, task_id)
    \/ \E w \in Workers : WorkerStep(w)
    \/ \E s \in SourceIds : DeleteSourceImage(s)
    \/ \E t \in ConcurrentTaskIds : DeleteTransformationTask(t)
    \/ \E i \in 1..MaxImages : DeleteTransformedImage(i)

SpecDelete == InitConcurrent /\ [][NextDelete]_vars

----------------------------------------------------------------------------
(* C27 *)

LiveImages == {i \in 1..Len(timgs) : timgs[i].live}

\* every reference of a persisted row names a persisted row
ReferencesResolve ==
    /\ \A t \in DOMAIN tasks :
          /\ tasks[t].original_image \in DOMAIN simgs
          /\ tasks[t].result_image # NullId =>
                tasks[t].result_image \in LiveImages
    /\ \A i \in LiveImages :
          /\ timgs[i].source_image \in DOMAIN simgs
          /\ timgs[i].transformation_task \in DOMAIN tasks

\* C27: referential integrity under deletion. In every step: the tasks and
\* TransformedImages of a deleted SourceImage are gone; the TransformedImages
\* of a deleted TransformationTask are gone; a task whose result_image was a
\* deleted TransformedImage has result_image null, and the deletion of a
\* TransformedImage alone deletes no task; afterwards no persisted row
\* references a deleted row.
C27_ReferentialIntegrityUnderDeletion ==
    [][/\ \A s \in DOMAIN simgs \ DOMAIN simgs' :
             /\ \A t \in DOMAIN tasks' : tasks'[t].original_image # s
             /\ \A i \in LiveImages' : timgs'[i].source_image # s
       /\ \A t \in DOMAIN tasks \ DOMAIN tasks' :
             \A i \in LiveImages' : timgs'[i].transformation_task # t
       /\ \A i \in LiveImages \ LiveImages' :
             /\ \A t \in DOMAIN tasks \cap DOMAIN tasks' :
                   tasks[t].result_image = i => tasks'[t].result_image = NullId
             /\ (/\ timgs[i].transformation_task \in DOMAIN tasks'
                 /\ timgs[i].source_image \in DOMAIN simgs') =>
                    DOMAIN tasks' = DOMAIN tasks
       /\ ReferencesResolve']_vars

\* a task was deleted and its TransformedImage with it, while another task
\* that had taken that image from the cache is still there, SUCCESS with
\* result_image null
C27_Witness ==
    \E i \in 1..Len(timgs) :
       /\ ~timgs[i].live
       /\ timgs[i].transformation_task \notin DOMAIN tasks
       /\ timgs[i].source_image \in DOMAIN simgs
       /\ \E t \in DOMAIN tasks :
             /\ tasks[t].status = SUCCESS
             /\ tasks[t].result_image = NullId
             /\ \E w \in Workers :
                   /\ wk[w].task_id = t
                   /\ wk[w].cached_image_id = i

----------------------------------------------------------------------------
(* The HTTP API: api/views.py, api/serializers.py, utils/security.py *)

Users == {"alice", "bob"}

MaxSources == 4

MaxApiTasks == 3

ParamLimit == 10000

\* html.escape on the strings that occur in the model
EscapeHtml(s) ==
    CASE s = "<b>" -> "&lt;b&gt;"
      [] OTHER -> s

\* re.sub(r"[^\w-]", "", operation) on the operations that occur in the model
StripOperation(operation) ==
    CASE operation = "flip;" -> "flip"
      [] OTHER -> operation

NumericParams == {"x", "y", "width", "height", "degrees"}

\* the value sanitize_transformations keeps for a parameter: strings are
\* escaped, numbers outside [-10000, 10000] become 0
SafeValue(key, value) ==
    IF key \in NumericParams
    THEN IF -ParamLimit <= value /\ value <= ParamLimit THEN value ELSE 0
    ELSE IF key = "watermark_text" THEN EscapeHtml(value)
    ELSE value

SanitizeParams(params) ==
    [i \in DOMAIN params |-> <<params[i][1], SafeValue(params[i][1], params[i][2])>>]

RECURSIVE SanitizeSteps(_)
\* the loop of sanitize_transformations: a step whose operation is not a key
\* of TRANSFORMATION_MAP is skipped, the others are kept with the operation
\* in lower case and sanitized params
SanitizeSteps(transformations) ==
    IF transformations = <<>> THEN <<>>
    ELSE LET operation == Lower(StripOperation(
                                  EscapeHtml(Head(transformations).operation)))
             rest == SanitizeSteps(Tail(transformations))
         IN  IF operation \in TRANSFORMATION_MAP
             THEN <<[operation |-> operation,
                     params |-> SanitizeParams(Head(transformations).params)]>>
                  \o rest
             ELSE rest

\* variant: the items are returned as they came
sanitize_transformations_Unfiltered(transformations) == transformations.items

\* a value that is not a list gives [], a list goes through the loop
sanitize_transformations(transformations) ==
    IF transformations.json_type # "list"
    THEN <<>>
    ELSE SanitizeSteps(transformations.items)

ImageFormat == {"JPEG", "PNG"}

\* variant: the serializer accepts every body
SerializerValid_Always(transformations, format) == TRUE

\* TransformationTaskSerializer.is_valid on a body with the given
\* transformations and format (NoFormat: the body has no format)
SerializerValid(transformations, format) ==
    format # NoFormat => Upper(format) \in ImageFormat

\* the validated data: validate_transformations and validate_format
ValidatedData(transformations, format) ==
    [transformations |-> sanitize_transformations(transformations),
     format |-> IF format = NoFormat THEN NoFormat ELSE Upper(format)]

\* variant: every row is visible to every user
OwnedBy_Anyone(rows, ids, user) == ids

\* get_queryset of the list and detail views: objects.filter(owner=user)
OwnedBy(rows, ids, user) == {id \in ids : rows[id].owner = user}

SourceImageQueryset(user) == OwnedBy(simgs, DOMAIN simgs, user)

TransformedImageQueryset(user) ==
    OwnedBy(timgs, {i \in 1..Len(timgs) : timgs[i].live}, user)

TransformationTaskQueryset(user) == OwnedBy(tasks, DOMAIN tasks, user)

Queryset(endpoint, user) ==
    CASE endpoint \in {"source_image_list", "source_image_detail"} ->
            SourceImageQueryset(user)
      [] endpoint \in {"transformed_image_list", "transformed_image_detail"} ->
            TransformedImageQueryset(user)
      [] endpoint \in {"task-list", "task-detail"} ->
            TransformationTaskQueryset(user)

ListEndpoints == {"source_image_list", "transformed_image_list", "task-list"}

DetailEndpoints ==
    {"source_image_detail", "transformed_image_detail", "task-detail"}

\* GET of a list view: the rows of the view's queryset
List(user, endpoint) ==
    /\ http' = Response(Request(user, endpoint, NullId, JsonList(<<>>), NoFormat),
                        200, Queryset(endpoint, user), NullId, <<>>)
    /\ UNCHANGED <<tasks, timgs, cache, wk, deliveries, simgs>>

\* GET of a detail view: get_object_or_404 on the view's queryset
Retrieve(user, endpoint, pk) ==
    /\ http' = IF pk \in Queryset(endpoint, user)
               THEN Response(Request(user, endpoint, pk, JsonList(<<>>), NoFormat),
                             200, {pk}, NullId, <<>>)
               ELSE Response(Request(user, endpoint, pk, JsonList(<<>>), NoFormat),
                             404, {}, NullId, <<>>)
    /\ UNCHANGED <<tasks, timgs, cache, wk, deliveries, simgs>>

\* POST upload_image; valid says whether UploadImageSerializer accepts the file
UploadImage(user, valid) ==
    LET req == Request(user, "source_image_upload", NullId, JsonList(<<>>), NoFormat)
        new_id == Cardinality(DOMAIN simgs) + 1
    IN  /\ Cardinality(DOMAIN simgs) < MaxSources
        /\ IF valid
           THEN /\ simgs' = simgs @@
                       (new_id :> [owner |-> user, file_name |-> "upload",
                                   description |-> "an upload",
                                   metadata |-> [present |-> TRUE,
                                                 format |-> "PNG"],
                                   mode |-> "RGB", width |-> 2, height |-> 2])
                /\ http' = Response(req, 201, {new_id}, new_id, <<>>)
           ELSE /\ simgs' = simgs
                /\ http' = Response(req, 400, {}, NullId, <<>>)
        /\ UNCHANGED <<tasks, timgs, cache, wk, deliveries>>

\* POST create_transformed_image
CreateTransformedImage(user, pk, transformations, format) ==
    LET req == Request(user, "create_transformed_image", pk,
                       transformations, format)
        data == ValidatedData(transformations, format)
        new_id == Len(tasks) + 1
    IN  /\ Len(tasks) < MaxApiTasks
        /\ IF pk \notin SourceImageQueryset(user)
           THEN /\ http' = Response(req, 404, {}, NullId, <<>>)
                /\ UNCHANGED tasks
           ELSE IF ~SerializerValid(transformations, format)
           THEN /\ http' = Response(req, 400, {}, NullId, <<>>)
                /\ UNCHANGED tasks
           ELSE /\ tasks' = Append(tasks,
                       NewTask([owner |-> user, original_image |-> pk,
                                transformations |-> data.transformations,
                                format |-> data.format]))
                /\ http' = Response(req, 201, {new_id}, new_id, <<new_id>>)
        /\ UNCHANGED <<timgs, cache, wk, deliveries, simgs>>

FlipUpper == [operation |-> "FLIP", params |-> <<>>]

ResizeNoParams == [operation |-> "resize", params |-> <<>>]

ResizeWidthOnly == [operation |-> "resize", params |-> << <<"width", 2>> >>]

\* the transformations of the request bodies
BodyTransformations ==
    { <<Flip>>, <<FlipUpper>>, <<Exec>>, <<Flip, Exec>>,
      <<Resize(2, 2)>>, <<Resize(0, 2)>>, <<Resize(2, -1)>>,
      <<ResizeNoParams>>, <<ResizeWidthOnly>> }

BodyFormats == {NoFormat, "png", "gif"}

\* the rows of two executed tasks, one of each user
ExecutedTasks ==
    << [NewTask(TaskProfiles[1]) EXCEPT !.status = SUCCESS, !.result_image = 1],
       [NewTask([owner |-> "bob", original_image |-> 2,
                 transformations |-> <<Flip>>, format |-> "PNG"])
           EXCEPT !.status = SUCCESS, !.result_image = 2] >>

InitApi ==
    /\ simgs = SourceImages
    /\ tasks = ExecutedTasks
    /\ timgs = [t \in 1..2 |->
                  NewTransformedImage(
                      Bitmap(simgs[tasks[t].original_image].width,
                             simgs[tasks[t].original_image].height, "RGB"),
                      t, tasks[t], tasks[t].format)]
    /\ cache = {}
    /\ wk = [w \in Workers |-> InitWorker]
    /\ deliveries = 0
    /\ http = NoRequest

NextApi ==
    \/ \E user \in Users, endpoint \in ListEndpoints : List(user, endpoint)
    \/ \E user \in Users, endpoint \in DetailEndpoints, pk \in 1..MaxSources :
          Retrieve(user, endpoint, pk)
    \/ \E user \in Users, valid \in BOOLEAN : UploadImage(user, valid)
    \/ \E user \in Users, pk \in 1..MaxSources, format \in {NoFormat, "png"} :
          CreateTransformedImage(user, pk, JsonList(<<Flip>>), format)

SpecApi == InitApi /\ [][NextApi]_vars

\* create_transformed_image over the request bodies
NextCreate ==
    \E user \in Users, pk \in 1..MaxSources,
       transformations \in BodyTransformations, format \in BodyFormats :
       CreateTransformedImage(user, pk, JsonList(transformations), format)

SpecCreate == InitApi /\ [][NextCreate]_vars

----------------------------------------------------------------------------
(* C24 *)

\* the owner of the object a detail request names, "" when there is none
OwnerOfRequested ==
    LET pk == http.request.pk
    IN  CASE http.request.endpoint = "source_image_detail" ->
                IF pk \in DOMAIN simgs THEN simgs[pk].owner ELSE ""
          [] http.request.endpoint = "transformed_image_detail" ->
                IF pk \in 1..Len(timgs) /\ timgs[pk].live
                THEN timgs[pk].owner ELSE ""
          [] http.request.endpoint = "task-detail" ->
                IF pk \in DOMAIN tasks THEN tasks[pk].owner ELSE ""

\* the objects of the user's own that a list request is about
OwnObjects(endpoint, user) ==
    CASE endpoint = "source_image_list" ->
            {s \in DOMAIN simgs : simgs[s].owner = user}
      [] endpoint = "transformed_image_list" ->
            {i \in 1..Len(timgs) : timgs[i].live /\ timgs[i].owner = user}
      [] endpoint = "task-list" ->
            {t \in DOMAIN tasks : tasks[t].owner = user}

\* C24: ownership isolation. A list response holds exactly the objects its
\* user owns, so it is the same whatever other users have created; a detail
\* request for an object of another user is answered 404, and a detail
\* response 200 is about an object of the requesting user.
C24_OwnershipIsolation ==
    /\ http.request.endpoint \in ListEndpoints =>
          /\ http.status = 200
          /\ http.ids = OwnObjects(http.request.endpoint, http.request.user)
    /\ http.request.endpoint \in DetailEndpoints =>
          /\ OwnerOfRequested = http.request.user <=> http.status = 200
          /\ OwnerOfRequested # http.request.user =>
                /\ http.status = 404
                /\ http.ids = {}

\* bob asked for the detail of a task of alice and got 404
C24_Witness ==
    /\ http.request.endpoint = "task-detail"
    /\ http.request.user = "bob"
    /\ http.request.pk \in DOMAIN tasks
    /\ tasks[http.request.pk].owner = "alice"
    /\ http.status = 404

----------------------------------------------------------------------------
(* C25 *)

\* the body of the last request names an operation that is not a key of
\* TRANSFORMATION_MAP
BodyHasUnknownOperation ==
    \E i \in DOMAIN http.request.transformations.items :
       Lower(http.request.transformations.items[i].operation) \notin TRANSFORMATION_MAP

\* the last request was a create_transformed_image by the owner of the
\* source with an acceptable format
CreateBySourceOwner ==
    /\ http.request.endpoint = "create_transformed_image"
    /\ http.request.pk \in DOMAIN simgs
    /\ simgs[http.request.pk].owner = http.request.user
    /\ SerializerValid(<<>>, http.request.format)

\* C25: a create_transformed_image request whose list names an unknown
\* operation is answered 400; it creates no task and enqueues nothing.
C25_UnknownOperationRejected ==
    (CreateBySourceOwner /\ BodyHasUnknownOperation) =>
       /\ http.status = 400
       /\ http.created = NullId
       /\ http.enqueued = <<>>

----------------------------------------------------------------------------
(* C26 *)

\* the body of the last request has a resize step whose width or height is
\* missing or not positive
BodyHasBadResize ==
    \E i \in DOMAIN http.request.transformations.items :
       LET step == http.request.transformations.items[i]
       IN  /\ step.operation = "resize"
           /\ \/ {"width", "height"} \ ParamNames(step.params) # {}
              \/ \E j \in DOMAIN step.params :
                    /\ step.params[j][1] \in {"width", "height"}
                    /\ step.params[j][2] <= 0

\* C26: a create_transformed_image request with a resize step whose width
\* or height is missing or not positive is answered 400; it creates no task
\* and enqueues nothing.
C26_BadResizeRejected ==
    (CreateBySourceOwner /\ BodyHasBadResize) =>
       /\ http.status = 400
       /\ http.created = NullId
       /\ http.enqueued = <<>>

----------------------------------------------------------------------------
(* C31 *)

\* C31: rotate by an angle that is not a multiple of 90 returns an image
\* whose canvas holds the whole rotated content: on a square input the
\* result is strictly larger than the input in at least one dimension, and
\* never smaller in either.
C31_RotateExpandsCanvas ==
    \A w \in Workers :
       (FirstStepIs(w, "rotate") /\ wk[w].steps_io # <<>>) =>
          LET degrees == Param(tasks[wk[w].task_id].transformations[1].params,
                               "degrees")
              in == wk[w].steps_io[1].input
              out == wk[w].steps_io[1].output
          IN  (degrees % 90 # 0 /\ in.width = in.height) =>
                 /\ out.width >= in.width
                 /\ out.height >= in.height
                 /\ out.width > in.width \/ out.height > in.height

----------------------------------------------------------------------------
(* C32 *)

\* C32: every TransformedImage an execution creates for task T on source S
\* with resolved format F has file_name "<S.file_name>_<T.id>.<F in lower
\* case>", the description of S, the owner of T, source_image S and
\* transformation_task T.
C32_TransformedImageFields ==
    \A w \in Workers :
       \A i \in Events(w, "create") :
          LET t == wk[w].task_id
              src == simgs[tasks[t].original_image]
              img == timgs[wk[w].log[i].id]
          IN  /\ img.file_name = <<src.file_name, t, Lower(ResolvedFormat(t))>>
              /\ img.description = src.description
              /\ img.owner = tasks[t].owner
              /\ img.source_image = tasks[t].original_image
              /\ img.transformation_task = t

\* an execution created the TransformedImage of a task whose format is
\* written in upper case
C32_Witness ==
    \E w \in Workers :
       /\ DoneOnTask(w)
       /\ Events(w, "create") # {}
       /\ tasks[wk[w].task_id].format = "PNG"
       /\ tasks[wk[w].task_id].result_image = wk[w].result_id
       /\ timgs[wk[w].result_id].file_name[3] = "png"

----------------------------------------------------------------------------
(* C33 *)

\* TransformedImage i records the whole chain of task t applied to the
\* source of t, encoded in the format resolved for t
RanCompleteChain(i, t) ==
    LET src == simgs[tasks[t].original_image]
        out == StepsInOrder(Bitmap(src.width, src.height, src.mode),
                            tasks[t].transformations,
                            Len(tasks[t].transformations))
    IN  /\ timgs[i].source_image = tasks[t].original_image
        /\ timgs[i].metadata =
              [format |-> ResolvedFormat(t),
               mode |-> IF out.mode = "RGBA" THEN "RGB" ELSE out.mode,
               width |-> out.width, height |-> out.height]

\* cache entry e maps the key of the inputs of a task to a TransformedImage
\* that an execution of that task created from the complete chain
EntryIsResultOfItsKey(e) ==
    /\ e[2] \in 1..Len(timgs)
    /\ LET t == timgs[e[2]].transformation_task
       IN  /\ t \in DOMAIN tasks
           /\ e[1] = generate_transformation_cache_key(
                         tasks[t].original_image, tasks[t].transformations,
                         tasks[t].format)
           /\ RanCompleteChain(e[2], t)

\* entry e was written by the execution of worker w on the compute path:
\* w found no entry, created the TransformedImage e names and wrote the
\* cache after that
WrittenOnComputePath(e, w) ==
    /\ ~CacheWasHit(w)
    /\ e[2] = wk[w].result_id
    /\ \E i \in Events(w, "create"), j \in Events(w, "cache_set") :
          i < j /\ wk[w].log[j].status = "ok"

\* C33: cache-content invariant. Every cache entry maps the key of a
\* (source image id, transformations, format) to the id of a
\* TransformedImage that was created, before the entry was written, by an
\* execution that ran the complete chain for that source, list and format;
\* an entry is there only by the cache write of an execution on the compute
\* path.
C33_CacheContent ==
    \A e \in cache :
       /\ EntryIsResultOfItsKey(e)
       /\ \E w \in Workers : WrittenOnComputePath(e, w)

\* the cache holds the result of an executed task while another task with
\* the same inputs has taken it from the cache
C33_Witness ==
    \E e \in cache : \E v, w \in Workers :
       /\ v # w
       /\ DoneOnTask(v) /\ DoneOnTask(w)
       /\ e[2] = wk[v].result_id
       /\ CacheWasHit(w)
       /\ wk[w].cached_image_id = e[2]
       /\ tasks[wk[w].task_id].status = SUCCESS

----------------------------------------------------------------------------
(* C34 *)

\* the cache write of step 6 of worker w's execution went through
WroteCache(w) ==
    \E i \in Events(w, "cache_set") : wk[w].log[i].status = "ok"

\* C34: an execution whose cache write of step 6 happened persists SUCCESS:
\* once it is over, its last write of the task is a save of SUCCESS, and the
\* task is not left FAILED or unfinished by it.
C34_CacheWriteOnlyBySuccess ==
    \A w \in Workers :
       (DoneOnTask(w) /\ WroteCache(w)) =>
          /\ wk[w].outcome = "returned"
          /\ LastEvent(w).ev = "save"
          /\ LastEvent(w).status = SUCCESS

----------------------------------------------------------------------------
(* C35 *)

\* C35: a task whose persisted status is SUCCESS has a null error_message,
\* also when an earlier execution of the task had failed.
C35_SuccessHasNoErrorMessage ==
    \A t \in DOMAIN tasks :
       tasks[t].status = SUCCESS => tasks[t].error_message = NullMsg

----------------------------------------------------------------------------
(* Tasks created through the API and executed by the workers *)

InitFlow ==
    /\ tasks = <<>>
    /\ timgs = <<>>
    /\ cache = {}
    /\ wk = [w \in Workers |-> InitWorker]
    /\ deliveries = 0
    /\ simgs = SourceImages
    /\ http = NoRequest

\* the two users ask for the same transformation of sources of their own
\* and of the other user; every created task is delivered once
NextFlow ==
    \/ \E user \in Users, pk \in 1..2 :
          /\ Len(tasks) < NumTasks + 1
          /\ CreateTransformedImage(user, pk, JsonList(<<Flip>>), "png")
    \/ \E w \in Workers : \E task_id \in DOMAIN tasks : DeliverOnce(w, task_id)
    \/ \E w \in Workers : WorkerStep(w)

SpecFlow == InitFlow /\ [][NextFlow]_vars

----------------------------------------------------------------------------
(* C36 *)

\* C36: the TransformedImage linked as result_image of a task that was
\* created through create_transformed_image has the owner of the task and
\* the task's original_image as source_image, on the compute path and on
\* the cache-hit path.
C36_ResultBelongsToTaskOwnerAndSource ==
    \A t \in DOMAIN tasks :
       tasks[t].result_image # NullId =>
          /\ tasks[t].result_image \in 1..Len(timgs)
          /\ timgs[tasks[t].result_image].owner = tasks[t].owner
          /\ timgs[tasks[t].result_image].source_image = tasks[t].original_image

\* tasks of the two users with the same list and format were both executed;
\* each has a cache entry under its own key and
\* a result of its own
C36_Witness ==
    \E v, w \in Workers :
       LET t == wk[v].task_id
           u == wk[w].task_id
       IN  /\ DoneOnTask(v) /\ DoneOnTask(w)
           /\ tasks[t].owner # tasks[u].owner
           /\ tasks[t].transformations = tasks[u].transformations
           /\ tasks[t].format = tasks[u].format
           /\ tasks[t].status = SUCCESS /\ tasks[u].status = SUCCESS
           /\ tasks[t].result_image # tasks[u].result_image
           /\ CacheGet(cache, TaskKey(t)) = tasks[t].result_image
           /\ CacheGet(cache, TaskKey(u)) = tasks[u].result_image
           /\ tasks[t].result_image < tasks[u].result_image

----------------------------------------------------------------------------
(* C37 *)

\* the source image the request names exists and belongs to the requester
SourceOwnedByRequester(response) ==
    /\ response.request.pk \in DOMAIN simgs
    /\ simgs[response.request.pk].owner = response.request.user

\* the body of the request passes the field validators of the serializer
BodyIsValid(response) ==
    \/ response.request.format = NoFormat
    \/ Upper(response.request.format) \in ImageFormat

\* the request created no task and enqueued nothing
NothingCreated(response) ==
    /\ tasks' = tasks
    /\ response.created = NullId
    /\ response.enqueued = <<>>

----------------------------------------------------------------------------
(* C38 *)

\* the lists sent as transformations: allowed and unknown operations in
\* several orders, numeric values at, inside and outside the limits
SanitizeLists ==
    { <<>>, <<Flip>>, <<FlipUpper>>, <<Exec>>, <<Flip, Exec>>, <<Exec, Flip>>,
      <<Rotate(90), Exec, Flip>>, <<Flip, Rotate(90)>>,
      <<Resize(ParamLimit, 2)>>, <<Resize(ParamLimit + 1, 2)>>,
      <<Resize(2, -ParamLimit - 1)>>, <<Rotate(-ParamLimit)>>,
      <<Exec, Resize(ParamLimit + 1, 2), Flip>> }

\* the JSON values sent as transformations
SanitizeInputs == {JsonList(t) : t \in SanitizeLists} \cup {JsonObject}

\* create_transformed_image over the JSON values
NextSanitize ==
    \E user \in Users, pk \in 1..MaxSources,
       transformations \in SanitizeInputs, format \in {NoFormat, "png"} :
       CreateTransformedImage(user, pk, transformations, format)

SpecSanitize == InitApi /\ [][NextSanitize]_vars

\* the last request created a task
CreatedTask ==
    /\ http.request.endpoint = "create_transformed_image"
    /\ http.status = 201

\* a numeric value as it must come out: itself inside the limits, else 0
InLimits(value) == -ParamLimit <= value /\ value <= ParamLimit

\* the stored step is the input step: same operation up to case, same
\* parameter keys, numeric values inside the limits kept and the others 0
StepKept(input, stored) ==
    /\ stored.operation = Lower(input.operation)
    /\ DOMAIN stored.params = DOMAIN input.params
    /\ \A j \in DOMAIN stored.params :
          /\ stored.params[j][1] = input.params[j][1]
          /\ stored.params[j][1] \in NumericParams =>
                stored.params[j][2] = IF InLimits(input.params[j][2])
                                      THEN input.params[j][2]
                                      ELSE 0

\* the stored steps are input steps in the order of the input
KeepsOrder(items, stored) ==
    \E f \in [DOMAIN stored -> DOMAIN items] :
       /\ \A i, j \in DOMAIN stored : i < j => f[i] < f[j]
       /\ \A i \in DOMAIN stored : StepKept(items[f[i]], stored[i])

\* C38: the list sanitize_transformations returns holds only operations that
\* are keys of TRANSFORMATION_MAP, in the order of the input and never more
\* than the input has; a value that is not a list gives the empty list; every
\* numeric parameter value lies in [-10000, 10000], a value outside being
\* replaced by 0. Every stored task names only allowed operations.
C38_SanitizedTransformations ==
    /\ \A t \in DOMAIN tasks :
          \A i \in DOMAIN tasks[t].transformations :
             tasks[t].transformations[i].operation \in TRANSFORMATION_MAP
    /\ CreatedTask =>
          LET input == http.request.transformations
              stored == tasks[http.created].transformations
          IN  /\ input.json_type # "list" => stored = <<>>
              /\ Len(stored) <= Len(input.items)
              /\ KeepsOrder(input.items, stored)
              /\ \A i \in DOMAIN stored :
                    \A j \in DOMAIN stored[i].params :
                       stored[i].params[j][1] \in NumericParams =>
                          InLimits(stored[i].params[j][2])

\* a list with an unknown operation and a value above the limit was
\* sanitized: the stored list is shorter and holds 0 for that value
C38_Witness ==
    /\ CreatedTask
    /\ LET input == http.request.transformations
           stored == tasks[http.created].transformations
       IN  /\ input.json_type = "list"
           /\ \E i \in DOMAIN input.items :
                 input.items[i].operation \notin TRANSFORMATION_MAP
           /\ \E i \in DOMAIN input.items :
                 \E j \in DOMAIN input.items[i].params :
                    input.items[i].params[j][2] > ParamLimit
           /\ Len(stored) = 2 /\ Len(input.items) = 3
           /\ stored[1].operation = "resize" /\ stored[1].params[1][2] = 0
           /\ stored[2].operation = "flip"

====
